---- MODULE Spec2Model ----
(***************************************************************************)
(* Model of the chess engine in src/chess_ai: the bitboard move generator, *)
(* the 32-bit action codec, Actions/Result, the terminal test and utility, *)
(* the iterative-deepening search and the engine facade (UpdateMove, Move).*)
(*                                                                         *)
(* A Bitboard (uint64_t) is modelled as the set of its set bit positions,  *)
(* a subset of 0..63 (bit 0 = A1, bit 7 = H1, bit 63 = H8).  A shift drops *)
(* the bits that leave the 64-bit word, exactly as the unsigned shift does.*)
(* An Action (uint32_t) is modelled as the pair of its two 16-bit halves,  *)
(* [hi |-> bits 16..31, lo |-> bits 0..15], so that bit 31 stays exact.    *)
(***************************************************************************)
EXTENDS Integers, Sequences, FiniteSets, TLC

(***************************************************************************)
(* Bounds of the model.                                                    *)
(***************************************************************************)
\* half_move_number_ does not grow beyond MaxPly
MaxPly == 3
\* clock polls that can succeed inside one search iteration before the limit
MaxPolls == 3
\* iterative-deepening iterations of one Move() call
MaxDepth == 2

(***************************************************************************)
(* Enumerations: color.h, chess-pieces.h, chess-outcome.h, direction.h     *)
(***************************************************************************)
kWhite == 0
kBlack == 1

kKing == 0
kQueen == 1
kRook == 2
kBishop == 3
kKnight == 4
kPawn == 5

kNumberOfPieces == 6
kMaxHistory == 8

kDraw == "Draw"
kWin == "Win"
kLoss == "Loss"
kNonterminal == "Nonterminal"

kNorth == "N"
kSouth == "S"
kEast == "E"
kWest == "W"
kNortheast == "NE"
kNorthwest == "NW"
kSoutheast == "SE"
kSouthwest == "SW"

(***************************************************************************)
(* Bitboard primitives (bitboard.cpp)                                      *)
(***************************************************************************)
Squares == 0..63

\* operator~
Not(b) == Squares \ b

\* operator^
Xor(a, b) == (a \ b) \cup (b \ a)

\* operator<< (d > 0) and operator>> (d < 0) on a 64-bit word
Shift(b, d) == {s + d : s \in {x \in b : x + d >= 0 /\ x + d <= 63}}

kAFileInverse == {s \in Squares : s % 8 # 0}
kHFileInverse == {s \in Squares : s % 8 # 7}
kAbFileInverse == {s \in Squares : s % 8 >= 2}
kGhFileInverse == {s \in Squares : s % 8 <= 5}

Rank(r) == {s \in Squares : s \div 8 = r - 1}

\* Bitboard::NumberOfBits
NumberOfBits(b) == Cardinality(b)

Min(S) == CHOOSE x \in S : \A y \in S : x <= y

RECURSIVE ToIndicesFrom(_, _)
ToIndicesFrom(b, acc) ==
  IF b = {} THEN acc
  ELSE LET m == Min(b) IN ToIndicesFrom(b \ {m}, Append(acc, m))

\* Bitboard::ToIndices: ascending list of the set bit positions
ToIndices(b) == ToIndicesFrom(b, <<>>)

\* Bitboard::Separated: a word with at most one bit set (zero included) is
\* returned as the one-element list holding it.
Separated(b) ==
  IF Cardinality(b) <= 1 THEN <<b>>
  ELSE LET idx == ToIndices(b) IN [i \in 1..Len(idx) |-> {idx[i]}]

Range(f) == {f[i] : i \in DOMAIN f}

(***************************************************************************)
(* MoveEngine (chess-engine.cpp, chess-engine.h)                           *)
(***************************************************************************)
Moving(board, direction) ==
  CASE direction = kNorth -> Shift(board, 8)
    [] direction = kSouth -> Shift(board, -8)
    [] direction = kEast -> Shift(board, 1) \cap kAFileInverse
    [] direction = kWest -> Shift(board, -1) \cap kHFileInverse
    [] direction = kNortheast -> Shift(board, 9) \cap kAFileInverse
    [] direction = kNorthwest -> Shift(board, 7) \cap kHFileInverse
    [] direction = kSoutheast -> Shift(board, -7) \cap kAFileInverse
    [] direction = kSouthwest -> Shift(board, -9) \cap kHFileInverse
    [] OTHER -> {}

\* The unrolled body of the *MovesWithBlockers routines:
\*   result |= board = (board shifted by delta) & mask, `steps' times,
\* with mask = inner on all steps but the last and mask = last on the last.
RECURSIVE StepsWithBlockers(_, _, _, _, _, _)
StepsWithBlockers(board, result, delta, inner, last, steps) ==
  IF steps = 0 \/ board = {} THEN result
  ELSE LET nb == Shift(board, delta) \cap (IF steps = 1 THEN last ELSE inner)
       IN StepsWithBlockers(nb, result \cup nb, delta, inner, last, steps - 1)

NorthMovesWithBlockers(board, bi) == StepsWithBlockers(board, board, 8, bi, bi, 7)
SouthMovesWithBlockers(board, bi) == StepsWithBlockers(board, board, -8, bi, bi, 7)
EastMovesWithBlockers(board, bi) ==
  StepsWithBlockers(board, board, 1, bi \cap kAFileInverse, bi, 7)
WestMovesWithBlockers(board, bi) ==
  StepsWithBlockers(board, board, -1, bi \cap kHFileInverse, bi, 7)
NortheastMovesWithBlockers(board, bi) ==
  StepsWithBlockers(board, board, 9, bi \cap kAFileInverse, bi, 7)
NorthwestMovesWithBlockers(board, bi) ==
  StepsWithBlockers(board, board, 7, bi \cap kHFileInverse, bi, 7)
SoutheastMovesWithBlockers(board, bi) ==
  StepsWithBlockers(board, board, -7, bi \cap kAFileInverse, bi, 7)
SouthwestMovesWithBlockers(board, bi) ==
  StepsWithBlockers(board, board, -9, bi \cap kHFileInverse, bi, 7)

PawnNorthMovesWithBlockers(board, bi) == StepsWithBlockers(board, board, 8, bi, bi, 1)
PawnNorthNorthMovesWithBlockers(board, bi) == StepsWithBlockers(board, board, 8, bi, bi, 2)
PawnSouthMovesWithBlockers(board, bi) == StepsWithBlockers(board, board, -8, bi, bi, 1)
PawnSouthSouthMovesWithBlockers(board, bi) == StepsWithBlockers(board, board, -8, bi, bi, 2)

AllBitboardsInOneBoard(boards) ==
  boards[kKing] \cup boards[kQueen] \cup boards[kRook] \cup boards[kBishop]
    \cup boards[kKnight] \cup boards[kPawn]

KingMoves(king, self) ==
  (Moving(king, kNorth) \cup Moving(king, kSouth) \cup Moving(king, kEast)
     \cup Moving(king, kWest) \cup Moving(king, kNortheast)
     \cup Moving(king, kNorthwest) \cup Moving(king, kSoutheast)
     \cup Moving(king, kSouthwest)) \cap Not(self)

KnightMoves(knight, self) ==
  ((Shift(knight, 17) \cap kAFileInverse) \cup (Shift(knight, -15) \cap kAFileInverse)
     \cup (Shift(knight, 15) \cap kHFileInverse) \cup (Shift(knight, -17) \cap kHFileInverse)
     \cup (Shift(knight, 10) \cap kAbFileInverse) \cup (Shift(knight, -6) \cap kAbFileInverse)
     \cup (Shift(knight, -10) \cap kGhFileInverse) \cup (Shift(knight, 6) \cap kGhFileInverse))
    \cap Not(self)

\* RookMoves without the final exclusive or with the rook's own square
RookMovesAsWithOrigin(rook, self0, enemy0) ==
  LET self == Not(self0)
      enemy == Not(enemy0)
  IN NorthMovesWithBlockers(rook, self \cap Moving(enemy, kNorth))
       \cup SouthMovesWithBlockers(rook, self \cap Moving(enemy, kSouth))
       \cup WestMovesWithBlockers(rook, self \cap Moving(enemy, kWest))
       \cup EastMovesWithBlockers(rook, self \cap Moving(enemy, kEast))

RookMoves(rook, self0, enemy0) ==
  LET self == Not(self0)
      enemy == Not(enemy0)
  IN Xor(NorthMovesWithBlockers(rook, self \cap Moving(enemy, kNorth))
           \cup SouthMovesWithBlockers(rook, self \cap Moving(enemy, kSouth))
           \cup WestMovesWithBlockers(rook, self \cap Moving(enemy, kWest))
           \cup EastMovesWithBlockers(rook, self \cap Moving(enemy, kEast)),
         rook)

BishopMoves(bishop, self0, enemy0) ==
  LET self == Not(self0)
      enemy == Not(enemy0)
  IN Xor(NortheastMovesWithBlockers(bishop, self \cap Moving(enemy, kNortheast))
           \cup NorthwestMovesWithBlockers(bishop, self \cap Moving(enemy, kNorthwest))
           \cup SoutheastMovesWithBlockers(bishop, self \cap Moving(enemy, kSoutheast))
           \cup SouthwestMovesWithBlockers(bishop, self \cap Moving(enemy, kSouthwest)),
         bishop)

QueenMoves(queen, self0, enemy0) ==
  LET self == Not(self0)
      enemy == Not(enemy0)
  IN Xor(NorthMovesWithBlockers(queen, self \cap Moving(enemy, kNorth))
           \cup SouthMovesWithBlockers(queen, self \cap Moving(enemy, kSouth))
           \cup WestMovesWithBlockers(queen, self \cap Moving(enemy, kWest))
           \cup EastMovesWithBlockers(queen, self \cap Moving(enemy, kEast))
           \cup NortheastMovesWithBlockers(queen, self \cap Moving(enemy, kNortheast))
           \cup NorthwestMovesWithBlockers(queen, self \cap Moving(enemy, kNorthwest))
           \cup SoutheastMovesWithBlockers(queen, self \cap Moving(enemy, kSoutheast))
           \cup SouthwestMovesWithBlockers(queen, self \cap Moving(enemy, kSouthwest)),
         queen)

PawnMoves(pawn, self0, enemy0, self_color) ==
  LET enemy_original == enemy0
      self == Not(self0)
      enemy == Not(enemy0)
      kSecondRank == Rank(2)
      kSeventhRank == Rank(7)
  IN IF self_color = kWhite
     THEN Xor(PawnNorthMovesWithBlockers(pawn, self \cap enemy)
                \cup PawnNorthNorthMovesWithBlockers(pawn \cap kSecondRank, self \cap enemy)
                \cup (Moving(pawn, kNortheast) \cap enemy_original)
                \cup (Moving(pawn, kNorthwest) \cap enemy_original),
              pawn)
     ELSE Xor(PawnSouthMovesWithBlockers(pawn, self \cap enemy)
                \cup PawnSouthSouthMovesWithBlockers(pawn \cap kSeventhRank, self \cap enemy)
                \cup (Moving(pawn, kSoutheast) \cap enemy_original)
                \cup (Moving(pawn, kSouthwest) \cap enemy_original),
              pawn)

AllStandardMovesInOneBitboard(self_pieces, self, enemy, self_color) ==
  KingMoves(self_pieces[kKing], self)
    \cup QueenMoves(self_pieces[kQueen], self, enemy)
    \cup RookMoves(self_pieces[kRook], self, enemy)
    \cup BishopMoves(self_pieces[kBishop], self, enemy)
    \cup KnightMoves(self_pieces[kKnight], self)
    \cup PawnMoves(self_pieces[kPawn], self, enemy, self_color)

\* kLongCastling = 0x01, kShortCastling = 0x08, obstacles 0x0e and 0x60
CastlingMoves(castling_squares, all_white, all_blacks) ==
  LET kLongCastling == {0}
      kShortCastling == {3}
      kLongCastlingObstacles == {1, 2, 3}
      kShortCastlingObstacles == {5, 6}
      obstacles == all_blacks \cup all_white
      short_castling_from == castling_squares \cap kShortCastling
      long_castling_from == castling_squares \cap kLongCastling
  IN (IF obstacles \cap kLongCastlingObstacles = {}
         /\ long_castling_from \cap kLongCastling # {}
      THEN kLongCastling ELSE {})
     \cup
     (IF obstacles \cap kShortCastlingObstacles = {}
         /\ short_castling_from \cap kShortCastling # {}
      THEN kShortCastling ELSE {})

EnpassantMoves(enemy_enpassant_squares, self_pawns) ==
  (Moving(enemy_enpassant_squares, kEast) \cap self_pawns)
    \cup (Moving(enemy_enpassant_squares, kWest) \cap self_pawns)

(***************************************************************************)
(* Action codec (action.h, action.cpp)                                     *)
(***************************************************************************)
\* The single bit of a one-bit board; the lookup tables of the codec hold
\* the 64 one-bit boards only, and operator[] yields 0 for any other key.
IndexOf(board) == CHOOSE i \in board : TRUE

ColorToBitboard(color) == IF color = kBlack THEN 1 ELSE 0

\* 0x01 -> 0x00, 0x02 -> 0x02, ... 0x8000000000000000 -> 0x7e
PieceBeforeToBitboard(before) ==
  IF Cardinality(before) = 1 THEN 2 * IndexOf(before) ELSE 0

\* 0x01 -> 0x00, 0x02 -> 0x80, ... 0x8000000000000000 -> 0x1f80
PieceAfterToBitboard(after) ==
  IF Cardinality(after) = 1 THEN 128 * IndexOf(after) ELSE 0

\* bits 16..18, as a value of the high half
PieceMovedToBitboard(piece) ==
  CASE piece = kKing -> 1
    [] piece = kPawn -> 2
    [] piece = kBishop -> 3
    [] piece = kKnight -> 4
    [] piece = kRook -> 5
    [] piece = kQueen -> 6
    [] OTHER -> 0

DoublePawnForwardToBitboard(double_pawn_forward) == IF double_pawn_forward THEN 8 ELSE 0
QueenSideCastleToBitboard(queen_side_castling) == IF queen_side_castling THEN 16 ELSE 0
KingSideCastleToBitboard(king_side_castling) == IF king_side_castling THEN 32 ELSE 0
EnemyInCheckToBitboard(enemy_in_check) == IF enemy_in_check THEN 64 ELSE 0

\* PieceCapturedToBitboard with a captured king encoded as 0x40000000, a bit
\* of the promotion field
PieceCapturedToBitboardAsOverlapping(was_capture, piece) ==
  IF ~was_capture THEN 0
  ELSE CASE piece = kPawn -> 128
         [] piece = kBishop -> 256
         [] piece = kKnight -> 384
         [] piece = kRook -> 512
         [] piece = kQueen -> 640
         [] piece = kKing -> 16384
         [] OTHER -> 0

\* 0x800000, 0x1000000, 0x1800000, 0x2000000, 0x2800000, 0x80000000
PieceCapturedToBitboard(was_capture, piece) ==
  IF ~was_capture THEN 0
  ELSE CASE piece = kPawn -> 128
         [] piece = kBishop -> 256
         [] piece = kKnight -> 384
         [] piece = kRook -> 512
         [] piece = kQueen -> 640
         [] piece = kKing -> 32768
         [] OTHER -> 0

WasEnPassantCaptureToBitboard(was_en_passant_capture) ==
  IF was_en_passant_capture THEN 1024 ELSE 0

WasEqualPieceCaptureToBitboard(was_capture, piece, capture_piece) ==
  IF was_capture /\ piece = capture_piece THEN 2048 ELSE 0

\* 0x10000000, 0x20000000, 0x30000000, 0x40000000
PromotionToBitboard(was_promotion, promoted_to) ==
  IF ~was_promotion THEN 0
  ELSE CASE promoted_to = kBishop -> 4096
         [] promoted_to = kKnight -> 8192
         [] promoted_to = kRook -> 12288
         [] promoted_to = kQueen -> 16384
         [] OTHER -> 0

\* Action::Action: the OR of the fields; the fields occupy disjoint bits, so
\* the OR is their sum.
Action(piece, color, piece_before, piece_after, double_pawn_forward, queen_side_castling, king_side_castling, enemy_in_check, was_capture, was_en_passant_capture, piece_captured, was_promotion, promoted_to) ==
  [lo |-> ColorToBitboard(color) + PieceBeforeToBitboard(piece_before)
            + PieceAfterToBitboard(piece_after),
   hi |-> PieceMovedToBitboard(piece)
            + DoublePawnForwardToBitboard(double_pawn_forward)
            + QueenSideCastleToBitboard(queen_side_castling)
            + KingSideCastleToBitboard(king_side_castling)
            + EnemyInCheckToBitboard(enemy_in_check)
            + PieceCapturedToBitboard(was_capture, piece_captured)
            + WasEnPassantCaptureToBitboard(was_en_passant_capture)
            + WasEqualPieceCaptureToBitboard(was_capture, piece, piece_captured)
            + PromotionToBitboard(was_promotion, promoted_to)]

ActionToColor(a) == IF a.lo % 2 = 1 THEN kBlack ELSE kWhite
ActionToPieceBefore(a) == {(a.lo \div 2) % 64}
ActionToPieceAfter(a) == {(a.lo \div 128) % 64}

\* board & 0x70000; a key missing from the table yields Piece(0) = kKing
ActionToPieceMoved(a) ==
  LET code == a.hi % 8
  IN CASE code = 1 -> kKing
       [] code = 2 -> kPawn
       [] code = 3 -> kBishop
       [] code = 4 -> kKnight
       [] code = 5 -> kRook
       [] code = 6 -> kQueen
       [] OTHER -> kKing

ActionToDoublePawnForward(a) == (a.hi \div 8) % 2 = 1
ActionToQueenSideCastle(a) == (a.hi \div 16) % 2 = 1
ActionToKingSideCastle(a) == (a.hi \div 32) % 2 = 1
ActionToEnemyInCheck(a) == (a.hi \div 64) % 2 = 1

\* board & 0x83800000
CaptureBits(a) == [kind |-> (a.hi \div 128) % 8, king |-> a.hi \div 32768]

ActionToPieceCaptured(a) ==
  LET c == CaptureBits(a)
  IN CASE c.king = 0 /\ c.kind = 1 -> kPawn
       [] c.king = 0 /\ c.kind = 2 -> kBishop
       [] c.king = 0 /\ c.kind = 3 -> kKnight
       [] c.king = 0 /\ c.kind = 4 -> kRook
       [] c.king = 0 /\ c.kind = 5 -> kQueen
       [] OTHER -> kKing

ActionToWasCapture(a) == CaptureBits(a).kind # 0 \/ CaptureBits(a).king # 0
ActionToWasEnpassantCapture(a) == (a.hi \div 1024) % 2 = 1
ActionToWasEqualPieceCapture(a) == (a.hi \div 2048) % 2 = 1
ActionToWasPromotion(a) == (a.hi \div 4096) % 8 # 0

ActionToPromotedTo(a) ==
  LET code == (a.hi \div 4096) % 8
  IN CASE code = 1 -> kBishop
       [] code = 2 -> kKnight
       [] code = 3 -> kRook
       [] code = 4 -> kQueen
       [] OTHER -> kKing

\* Action::operator< : unsigned comparison of the 32-bit words
ActionLess(a, b) == a.hi < b.hi \/ (a.hi = b.hi /\ a.lo < b.lo)

\* std::sort(actions.begin(), actions.end()) on a list without duplicates
RECURSIVE SortActionsFrom(_, _)
SortActionsFrom(S, acc) ==
  IF S = {} THEN acc
  ELSE LET m == CHOOSE x \in S : \A y \in S \ {x} : ActionLess(x, y)
       IN SortActionsFrom(S \ {m}, Append(acc, m))

SortActions(S) == SortActionsFrom(S, <<>>)

(***************************************************************************)
(* State (state.h) and ChessAI's static helpers (chess-ai.cpp)             *)
(***************************************************************************)
State(color_at_play, all_whites, all_blacks, whites, blacks, en_passant_squares, castling_squares) ==
  [color_at_play_ |-> color_at_play,
   all_whites_ |-> all_whites,
   all_blacks_ |-> all_blacks,
   whites_ |-> whites,
   blacks_ |-> blacks,
   en_passant_squares_ |-> en_passant_squares,
   castling_squares_ |-> castling_squares]

OtherColor(color) == (color + 1) % 2

WasCapture(enemy_bitboard, move) == (enemy_bitboard \cap move) # {}

\* the first piece kind, in enum order, that holds the square
FindCapturePiece(enemy_bitboards, enemy_bitboard, move) ==
  IF ~WasCapture(enemy_bitboard, move) THEN kKing
  ELSE IF \E i \in 0..(kNumberOfPieces - 1) : (move \cap enemy_bitboards[i]) # {}
       THEN Min({i \in 0..(kNumberOfPieces - 1) : (move \cap enemy_bitboards[i]) # {}})
       ELSE kKing

EnpassantMoveGenerator(en_passant_squares, pawn, friendly_color) ==
  LET valid_squares == EnpassantMoves(en_passant_squares, pawn)
  IN IF valid_squares # {}
     THEN IF friendly_color = kWhite
          THEN Moving(en_passant_squares, kNorth)
          ELSE Moving(en_passant_squares, kSouth)
     ELSE {}

\* 0x08 -> 0x04, 0x20 -> 0x40, 0x0800000000000000 -> 0x0400000000000000,
\* 0x2000000000000000 -> 0x4000000000000000
KingLocationAfterCastling(rook_after) ==
  CASE rook_after = {3} -> {2}
    [] rook_after = {5} -> {6}
    [] rook_after = {59} -> {58}
    [] rook_after = {61} -> {62}
    [] OTHER -> {}

CastlingMoveGenerator(all_whites, all_blacks, castling_squares, rook) ==
  LET kWhiteLongSideBefore == {0}
      kWhiteShortSideBefore == {7}
      kBlackLongSideBefore == {56}
      kBlackShortSideBefore == {63}
      kWhiteLongSideAfter == {3}
      kWhiteShortSideAfter == {5}
      kBlackLongSideAfter == {59}
      kBlackShortSideAfter == {61}
      possible_castles == CastlingMoves(castling_squares, all_whites, all_blacks)
  IN (IF (kWhiteLongSideBefore \cap possible_castles \cap rook) # {}
      THEN kWhiteLongSideAfter ELSE {})
     \cup (IF (kWhiteShortSideBefore \cap possible_castles \cap rook) # {}
           THEN kWhiteShortSideAfter ELSE {})
     \cup (IF (kBlackLongSideBefore \cap possible_castles \cap rook) # {}
           THEN kBlackLongSideAfter ELSE {})
     \cup (IF (kBlackShortSideBefore \cap possible_castles \cap rook) # {}
           THEN kBlackShortSideAfter ELSE {})

Friendly(state) ==
  IF state.color_at_play_ = kWhite THEN state.whites_ ELSE state.blacks_
Enemy(state) ==
  IF state.color_at_play_ = kWhite THEN state.blacks_ ELSE state.whites_
AllFriendly(state) ==
  IF state.color_at_play_ = kWhite THEN state.all_whites_ ELSE state.all_blacks_
AllEnemy(state) ==
  IF state.color_at_play_ = kWhite THEN state.all_blacks_ ELSE state.all_whites_

\* move_generators of ChessAI::Actions: piece type, is castling, is en
\* passant; the move function is MoveGenerator(index, ...).
move_generators ==
  << [piece |-> kKing, is_castling |-> FALSE, is_en_passant |-> FALSE],
     [piece |-> kKnight, is_castling |-> FALSE, is_en_passant |-> FALSE],
     [piece |-> kRook, is_castling |-> FALSE, is_en_passant |-> FALSE],
     [piece |-> kBishop, is_castling |-> FALSE, is_en_passant |-> FALSE],
     [piece |-> kQueen, is_castling |-> FALSE, is_en_passant |-> FALSE],
     [piece |-> kPawn, is_castling |-> FALSE, is_en_passant |-> FALSE],
     [piece |-> kPawn, is_castling |-> FALSE, is_en_passant |-> TRUE],
     [piece |-> kRook, is_castling |-> TRUE, is_en_passant |-> FALSE] >>

\* The lambdas of move_generators.  The seventh passes (pawn_board,
\* en_passant_squares, friendly_color) to EnpassantMoveGenerator, whose
\* parameters are (en_passant_squares, pawn, friendly_color).
MoveGenerator(g, state, board) ==
  CASE g = 1 -> KingMoves(board, AllFriendly(state))
    [] g = 2 -> KnightMoves(board, AllFriendly(state))
    [] g = 3 -> RookMoves(board, AllFriendly(state), AllEnemy(state))
    [] g = 4 -> BishopMoves(board, AllFriendly(state), AllEnemy(state))
    [] g = 5 -> QueenMoves(board, AllFriendly(state), AllEnemy(state))
    [] g = 6 -> PawnMoves(board, AllFriendly(state), AllEnemy(state),
                          state.color_at_play_)
    [] g = 7 -> EnpassantMoveGenerator(board, state.en_passant_squares_,
                                       state.color_at_play_)
    [] g = 8 -> CastlingMoveGenerator(AllFriendly(state), AllEnemy(state),
                                      state.castling_squares_, board)

promotable_pieces == {kQueen, kRook, kBishop, kKnight}

\* The hypothetical friendly occupancy of the legality filter.
NewAllFriendly(all_friendly, current_board, piece_inside_board, new_location) ==
  (all_friendly \cap Not(current_board)) \cup new_location

\* The body of the innermost loop of ChessAI::Actions: the actions pushed for
\* one piece instance and one target square (none, one, or four).
ActionsForLocation(state, g, piece_inside_board, new_location) ==
  LET kFirstEighthRank == Rank(1) \cup Rank(8)
      kSecondSeventhRank == Rank(2) \cup Rank(7)
      kFourthFifthRank == Rank(4) \cup Rank(5)
      kQueenSideCastlingBefore == {0, 56}
      kQueenSideCastlingAfter == {3, 59}
      kKingSideCastlingBefore == {7, 63}
      kKingSideCastlingAfter == {5, 61}
      piece == move_generators[g].piece
      is_castling == move_generators[g].is_castling
      is_en_passant == move_generators[g].is_en_passant
      friendly_color == state.color_at_play_
      enemy_color == OtherColor(state.color_at_play_)
      friendly == Friendly(state)
      enemy == Enemy(state)
      all_friendly == AllFriendly(state)
      all_enemy == AllEnemy(state)
      current_board == friendly[piece]
      new_all_friendly ==
        NewAllFriendly(all_friendly, current_board, piece_inside_board, new_location)
      new_all_enemy == all_enemy \cap Not(new_location)
      temp_all_enemy == [i \in 0..(kNumberOfPieces - 1) |-> enemy[i] \cap new_all_enemy]
      all_enemy_moves ==
        AllStandardMovesInOneBitboard(temp_all_enemy, new_all_enemy,
                                      new_all_friendly, enemy_color)
      king_piece ==
        IF is_castling THEN KingLocationAfterCastling(new_location)
        ELSE IF piece = kKing THEN new_location ELSE friendly[kKing]
      enemies_attacking_king == all_enemy_moves \cap king_piece
      was_a_capture == WasCapture(all_enemy, new_location)
      captured_piece == FindCapturePiece(enemy, all_enemy, new_location)
      before == piece_inside_board
      after == new_location
      double_pawn_forward ==
        piece = kPawn /\ (before \cap kSecondSeventhRank) # {}
          /\ (after \cap kFourthFifthRank) # {}
      queen_side_castling ==
        IF is_castling
        THEN (before \cap kQueenSideCastlingBefore) # {}
               /\ (after \cap kQueenSideCastlingAfter) # {}
        ELSE FALSE
      king_side_castling ==
        IF is_castling
        THEN (before \cap kKingSideCastlingBefore) # {}
               /\ (after \cap kKingSideCastlingAfter) # {}
        ELSE FALSE
      enemy_in_check == FALSE
  IN IF enemies_attacking_king # {} THEN {}
     ELSE IF piece = kPawn /\ (new_location \cap kFirstEighthRank) # {}
          THEN {Action(piece, friendly_color, before, after, double_pawn_forward,
                       queen_side_castling, king_side_castling, enemy_in_check,
                       was_a_capture, is_en_passant, captured_piece, TRUE,
                       promoted_piece) : promoted_piece \in promotable_pieces}
          ELSE {Action(piece, friendly_color, before, after, double_pawn_forward,
                       queen_side_castling, king_side_castling, enemy_in_check,
                       was_a_capture, is_en_passant, captured_piece, FALSE, kKing)}

\* The actions pushed by ChessAI::Actions before the final sort.
ActionSet(state) ==
  UNION {
    UNION {
      IF MoveGenerator(g, state, piece_inside_board) = {} THEN {}
      ELSE UNION { ActionsForLocation(state, g, piece_inside_board, new_location) :
                   new_location \in Range(Separated(MoveGenerator(g, state, piece_inside_board))) }
      : piece_inside_board \in Range(Separated(Friendly(state)[move_generators[g].piece])) }
    : g \in 1..Len(move_generators) }

\* ChessAI::Actions
Actions(state) == SortActions(ActionSet(state))

\* ChessAI::Result
Result(state, action) ==
  LET kFourthFifthRank == Rank(4) \cup Rank(5)
      kSecondSeventhRank == Rank(2) \cup Rank(7)
      piece == ActionToPieceMoved(action)
      piece_before == ActionToPieceBefore(action)
      piece_after == ActionToPieceAfter(action)
      was_capture == ActionToWasCapture(action)
      captured_piece == ActionToPieceCaptured(action)
      was_promotion == ActionToWasPromotion(action)
      promoted_to == ActionToPromotedTo(action)
      old_color_at_play == state.color_at_play_
      new_color_at_play == OtherColor(state.color_at_play_)
      was_en_passant == ActionToWasEnpassantCapture(action)
      was_castling == ActionToQueenSideCastle(action) \/ ActionToKingSideCastle(action)
      \* the mover's boards after the move itself
      Moved(boards) ==
        IF was_promotion
        THEN LET b1 == [boards EXCEPT ![kPawn] = @ \cap Not(piece_before)]
             IN [b1 EXCEPT ![promoted_to] = @ \cup piece_after]
        ELSE [boards EXCEPT ![piece] = (@ \cap Not(piece_before)) \cup piece_after]
      \* the other side's boards after capture and en passant
      Taken(boards) ==
        LET b1 == IF was_capture
                  THEN [boards EXCEPT ![captured_piece] = @ \cap Not(piece_after)]
                  ELSE boards
        IN IF ~was_promotion /\ was_en_passant
           THEN [b1 EXCEPT ![kPawn] = @ \cap Not(state.en_passant_squares_)]
           ELSE b1
      \* both castle branches assign whites[kKing]
      Castled(white_boards) ==
        IF ~was_promotion /\ was_castling
        THEN [white_boards EXCEPT ![kKing] = KingLocationAfterCastling(piece_after)]
        ELSE white_boards
      whites ==
        IF old_color_at_play = kWhite
        THEN Castled(Moved(state.whites_))
        ELSE Castled(Taken(state.whites_))
      blacks ==
        IF old_color_at_play = kWhite
        THEN Taken(state.blacks_)
        ELSE Moved(state.blacks_)
      castling_squares ==
        IF piece = kRook THEN state.castling_squares_ \cap Not(piece_before)
        ELSE state.castling_squares_
      en_passant_squares ==
        IF piece # kRook /\ piece = kPawn
           /\ (piece_before \cap kSecondSeventhRank) # {}
           /\ (piece_after \cap kFourthFifthRank) # {}
        THEN piece_after ELSE {}
  IN State(new_color_at_play, AllBitboardsInOneBoard(whites),
           AllBitboardsInOneBoard(blacks), whites, blacks,
           en_passant_squares, castling_squares)

(***************************************************************************)
(* PerceptSequence (chess-history.h)                                       *)
(***************************************************************************)
EmptyPerceptSequence ==
  [state_history_ |-> <<>>, moves_since_capture_ |-> 0,
   moves_since_pawn_movement_ |-> 0]

\* PerceptSequence::Add(const State&)
PerceptAddState(history, state) ==
  [history EXCEPT !.state_history_ =
     IF Len(@) > kMaxHistory THEN Append(Tail(@), state) ELSE Append(@, state)]

\* PerceptSequence::Add(const Action&)
PerceptAddAction(history, action) ==
  [history EXCEPT
     !.moves_since_capture_ = IF ActionToWasCapture(action) THEN @ + 1 ELSE 0,
     !.moves_since_pawn_movement_ =
        IF ActionToPieceMoved(action) = kPawn THEN @ + 1 ELSE 0]

(***************************************************************************)
(* Terminal test, utility and heuristic (chess-ai.cpp, chess-heuristic.h)  *)
(***************************************************************************)
IsEightfoldRepetitionRule(from_history) ==
  IF Len(from_history.state_history_) < 8 THEN FALSE
  ELSE IF \E i \in 0..3 :
            from_history.state_history_[i + 1] # from_history.state_history_[i + 5]
       THEN FALSE
       ELSE from_history.moves_since_pawn_movement_ >= 8
              /\ from_history.moves_since_capture_ >= 8

InsufficientMaterial(current_state) ==
  LET w == current_state.whites_
      b == current_state.blacks_
      NoneOf(boards, kinds) == \A k \in kinds : boards[k] = {}
      only_kings ==
        NoneOf(w, {kRook, kBishop, kQueen, kKnight, kPawn})
          /\ NoneOf(b, {kRook, kBishop, kQueen, kKnight, kPawn})
      king_vs_king_knight_black ==
        NoneOf(w, {kRook, kBishop, kQueen, kKnight, kPawn})
          /\ NoneOf(b, {kRook, kBishop, kQueen, kPawn})
          /\ NumberOfBits(b[kKnight]) = 1
      king_vs_king_bishop_black ==
        NoneOf(w, {kRook, kBishop, kQueen, kKnight, kPawn})
          /\ NoneOf(b, {kRook, kQueen, kKnight, kPawn})
          /\ NumberOfBits(b[kBishop]) = 1
      king_vs_king_knight_white ==
        NoneOf(w, {kRook, kBishop, kQueen, kPawn})
          /\ NumberOfBits(w[kKnight]) = 1
          /\ NoneOf(b, {kRook, kBishop, kQueen, kKnight, kPawn})
      king_vs_king_bishop_white ==
        NoneOf(w, {kRook, kQueen, kKnight, kPawn})
          /\ NumberOfBits(w[kBishop]) = 1
          /\ NoneOf(b, {kRook, kBishop, kQueen, kKnight, kPawn})
  IN only_kings \/ king_vs_king_knight_black \/ king_vs_king_bishop_black
       \/ king_vs_king_knight_white \/ king_vs_king_bishop_white

FiftyMoveRule(history) ==
  history.moves_since_capture_ >= 50 /\ history.moves_since_pawn_movement_ > 50

\* TerminalTest with the two outcomes of a state without actions exchanged
TerminalTestAsSwapped(state, history) ==
  LET friendly_color == state.color_at_play_
      enemy_color == OtherColor(friendly_color)
      all_enemy_moves ==
        AllStandardMovesInOneBitboard(Enemy(state), AllEnemy(state),
                                      AllFriendly(state), enemy_color)
  IN IF ActionSet(state) = {}
     THEN IF (Friendly(state)[kKing] \cap all_enemy_moves) = {} THEN kLoss ELSE kDraw
     ELSE IF IsEightfoldRepetitionRule(history) THEN kDraw
     ELSE IF InsufficientMaterial(state) THEN kDraw
     ELSE IF FiftyMoveRule(history) THEN kDraw
     ELSE kNonterminal

\* ChessAI::TerminalTest
TerminalTest(state, history) ==
  LET friendly_color == state.color_at_play_
      enemy_color == OtherColor(friendly_color)
      all_enemy_moves ==
        AllStandardMovesInOneBitboard(Enemy(state), AllEnemy(state),
                                      AllFriendly(state), enemy_color)
  IN IF ActionSet(state) = {}
     THEN IF (Friendly(state)[kKing] \cap all_enemy_moves) = {} THEN kDraw ELSE kLoss
     ELSE IF IsEightfoldRepetitionRule(history) THEN kDraw
     ELSE IF InsufficientMaterial(state) THEN kDraw
     ELSE IF FiftyMoveRule(history) THEN kDraw
     ELSE kNonterminal

\* std::numeric_limits<float>::infinity(): a value above every material sum
Infinity == 1000

\* the outcome seen from friendly_color
UtilityOutcome(terminal_result, color_at_play, friendly_color) ==
  IF color_at_play = friendly_color THEN terminal_result
  ELSE IF terminal_result = kNonterminal THEN terminal_result
  ELSE IF terminal_result = kWin THEN kLoss
  ELSE kWin

\* ChessAI::UtilityFunction
UtilityFunction(state, friendly_color, history) ==
  LET outcome == UtilityOutcome(TerminalTest(state, history),
                                state.color_at_play_, friendly_color)
  IN IF outcome = kWin THEN Infinity
     ELSE IF outcome = kLoss THEN -Infinity
     ELSE 0

piece_weights ==
  [k \in {kPawn, kKnight, kBishop, kRook, kQueen} |->
     CASE k = kPawn -> 1 [] k = kKnight -> 3 [] k = kBishop -> 3
       [] k = kRook -> 5 [] k = kQueen -> 9]

RECURSIVE SumOver(_, _, _)
SumOver(S, f, acc) ==
  IF S = {} THEN acc
  ELSE LET k == CHOOSE x \in S : TRUE IN SumOver(S \ {k}, f, acc + f[k])

\* ChessAIHeuristic<T>::MaterialAdvantage
MaterialAdvantage(state, player_color) ==
  LET mine == IF player_color = kWhite THEN state.whites_ ELSE state.blacks_
      theirs == IF player_color = kWhite THEN state.blacks_ ELSE state.whites_
      difference ==
        [k \in DOMAIN piece_weights |->
           piece_weights[k] * (NumberOfBits(mine[k]) - NumberOfBits(theirs[k]))]
  IN SumOver(DOMAIN piece_weights, difference, 0)

\* ChessAI::UtilityHeuristic
UtilityHeuristic(state, player_color) == MaterialAdvantage(state, player_color)

\* IsNonQuiescenceState with the double pawn push counted as well
IsNonQuiescenceStateAsDoublePush(action) ==
  ActionToWasCapture(action) \/ ActionToWasPromotion(action)
    \/ ActionToEnemyInCheck(action) \/ ActionToDoublePawnForward(action)

\* ChessAI::IsNonQuiescenceState
IsNonQuiescenceState(action) ==
  ActionToWasCapture(action) \/ ActionToWasPromotion(action)
    \/ ActionToEnemyInCheck(action)

(***************************************************************************)
(* Search (chess-ai.cpp): MaxValue, MinValue, DepthLimitedMinimax          *)
(*                                                                         *)
(* A std::shared_ptr<float> result is the record                           *)
(*   [null |-> it is nullptr, value |-> the float when it is not],         *)
(* returned together with the history table (passed by reference in the    *)
(* code) and the clock.  The clock is the number of polls of               *)
(* move_timer_.Elapsed() that still find the time limit not exceeded; once *)
(* it is 0 every later poll finds the limit exceeded, as time only grows.  *)
(***************************************************************************)
\* std::sort leaves the order of elements that compare equal unspecified.
\* A build's std::sort is one function; sort_equals says what this build does
\* with equal elements: it keeps them in their incoming order (as an
\* insertion sort does) or it does not (they come out in the opposite order).
VARIABLE sort_equals

SortEquals == {"kept", "reversed"}

EmptyHistoryTable == [a \in {} |-> 0]

\* `Action best_action;' is default-initialised: its word is indeterminate.
\* The token stands for that word.
kIndeterminateAction == [lo |-> -1, hi |-> -1]

HistoryCount(history_table, action) ==
  IF action \in DOMAIN history_table THEN history_table[action] ELSE 0

\* ChessAI::AddToHistoryTable
AddToHistoryTable(history_table, action) ==
  IF action \in DOMAIN history_table
  THEN [history_table EXCEPT ![action] = @ + 1]
  ELSE [a \in DOMAIN history_table \cup {action} |->
          IF a = action THEN 1 ELSE history_table[a]]

\* std::sort with sort_function (val1 > val2): descending history count,
\* the actions of equal count in the order of `rest'.
RECURSIVE SortByHistoryFrom(_, _, _)
SortByHistoryFrom(rest, history_table, acc) ==
  IF rest = <<>> THEN acc
  ELSE LET best == Min({i \in 1..Len(rest) :
                         \A j \in 1..Len(rest) :
                           HistoryCount(history_table, rest[j])
                             <= HistoryCount(history_table, rest[i])})
       IN SortByHistoryFrom(
            [k \in 1..(Len(rest) - 1) |-> IF k < best THEN rest[k] ELSE rest[k + 1]],
            history_table, Append(acc, rest[best]))

Reverse(list) == [i \in 1..Len(list) |-> list[Len(list) + 1 - i]]

\* std::sort(possible_actions.begin(), possible_actions.end(), sort_function)
SortByHistory(possible_actions, history_table) ==
  SortByHistoryFrom(IF sort_equals = "kept" THEN possible_actions
                    ELSE Reverse(possible_actions),
                    history_table, <<>>)

\* Besides what the code returns, a result tells how far the call went:
\* `deepest' is the lowest depth_limit of a frame of the call that went past
\* the depth test to generate its actions, Infinity when none did.
NullResult(history_table, clock) ==
  [null |-> TRUE, value |-> 0, table |-> history_table, clock |-> clock,
   deepest |-> Infinity]

ValueResult(value, history_table, clock) ==
  [null |-> FALSE, value |-> value, table |-> history_table, clock |-> clock,
   deepest |-> Infinity]

\* the result of a call one of whose frames went on with depth_limit
Visited(depth_limit, result) ==
  [result EXCEPT !.deepest = IF @ <= depth_limit THEN @ ELSE depth_limit]

MaxOf(a, b) == IF a >= b THEN a ELSE b
MinOf(a, b) == IF a <= b THEN a ELSE b

RECURSIVE MaxValue(_, _, _, _, _, _, _, _, _, _)
RECURSIVE MinValue(_, _, _, _, _, _, _, _, _, _)
RECURSIVE MaxValueLoop(_, _, _, _, _, _, _, _, _, _, _, _, _)
RECURSIVE MinValueLoop(_, _, _, _, _, _, _, _, _, _, _, _, _)

\* the body of the for loop of ChessAI::MaxValue once MinValue has returned
\* new_value for possible_actions[i]
MaxValueStep(new_value, possible_actions, i, value, best_action, depth_limit, quiescence_limit, state, alpha, beta, color, history) ==
  Visited(new_value.deepest,
  IF new_value.null THEN NullResult(new_value.table, new_value.clock)
  ELSE IF MaxOf(new_value.value, value) >= beta
  THEN ValueResult(MaxOf(new_value.value, value),
                   AddToHistoryTable(new_value.table, possible_actions[i]),
                   new_value.clock)
  ELSE MaxValueLoop(possible_actions, i + 1, MaxOf(new_value.value, value),
                    IF new_value.value > value THEN possible_actions[i]
                    ELSE best_action,
                    depth_limit, quiescence_limit, new_value.clock, state,
                    MaxOf(alpha, MaxOf(new_value.value, value)), beta, color,
                    new_value.table, history))

\* the for loop of ChessAI::MaxValue, from element i of possible_actions on
MaxValueLoop(possible_actions, i, value, best_action, depth_limit, quiescence_limit, clock, state, alpha, beta, color, history_table, history) ==
  IF i > Len(possible_actions)
  THEN ValueResult(value, AddToHistoryTable(history_table, best_action), clock)
  ELSE MaxValueStep(
         MinValue(depth_limit - 1, quiescence_limit, clock,
                  Result(state, possible_actions[i]), possible_actions[i],
                  alpha, beta, color, history_table,
                  PerceptAddAction(
                    PerceptAddState(history, Result(state, possible_actions[i])),
                    possible_actions[i])),
         possible_actions, i, value, best_action, depth_limit, quiescence_limit,
         state, alpha, beta, color, history)

\* ChessAI::MaxValue
MaxValue(depth_limit, quiescence_limit, clock, state, action, alpha, beta, color, history_table, history) ==
  IF TerminalTest(state, history) # kNonterminal
  THEN ValueResult(UtilityFunction(state, color, history), history_table, clock)
  ELSE IF clock = 0 THEN NullResult(history_table, clock)
  ELSE IF depth_limit <= 0 /\ ~IsNonQuiescenceState(action)
  THEN ValueResult(UtilityHeuristic(state, color), history_table, clock - 1)
  ELSE Visited(depth_limit,
         MaxValueLoop(SortByHistory(Actions(state), history_table), 1, -Infinity,
                      kIndeterminateAction, depth_limit,
                      IF depth_limit <= 0 THEN quiescence_limit - 1
                      ELSE quiescence_limit,
                      clock - 1, state, alpha, beta, color, history_table,
                      history))

\* MinValueStep with the cut-off test against beta instead of alpha
MinValueStepAsBetaCutoff(new_value, possible_actions, i, value, best_action, depth_limit, quiescence_limit, state, alpha, beta, color, history) ==
  Visited(new_value.deepest,
  IF new_value.null THEN NullResult(new_value.table, new_value.clock)
  ELSE IF MinOf(new_value.value, value) <= beta
  THEN ValueResult(MinOf(new_value.value, value),
                   AddToHistoryTable(new_value.table, possible_actions[i]),
                   new_value.clock)
  ELSE MinValueLoop(possible_actions, i + 1, MinOf(new_value.value, value),
                    IF new_value.value < value THEN possible_actions[i]
                    ELSE best_action,
                    depth_limit, quiescence_limit, new_value.clock, state,
                    alpha, MinOf(beta, MinOf(new_value.value, value)), color,
                    new_value.table, history))

\* the body of the for loop of ChessAI::MinValue once MaxValue has returned
\* new_value for possible_actions[i]
MinValueStep(new_value, possible_actions, i, value, best_action, depth_limit, quiescence_limit, state, alpha, beta, color, history) ==
  Visited(new_value.deepest,
  IF new_value.null THEN NullResult(new_value.table, new_value.clock)
  ELSE IF MinOf(new_value.value, value) <= alpha
  THEN ValueResult(MinOf(new_value.value, value),
                   AddToHistoryTable(new_value.table, possible_actions[i]),
                   new_value.clock)
  ELSE MinValueLoop(possible_actions, i + 1, MinOf(new_value.value, value),
                    IF new_value.value < value THEN possible_actions[i]
                    ELSE best_action,
                    depth_limit, quiescence_limit, new_value.clock, state,
                    alpha, MinOf(beta, MinOf(new_value.value, value)), color,
                    new_value.table, history))

\* the for loop of ChessAI::MinValue, from element i of possible_actions on
MinValueLoop(possible_actions, i, value, best_action, depth_limit, quiescence_limit, clock, state, alpha, beta, color, history_table, history) ==
  IF i > Len(possible_actions)
  THEN ValueResult(value, AddToHistoryTable(history_table, best_action), clock)
  ELSE MinValueStep(
         MaxValue(depth_limit - 1, quiescence_limit, clock,
                  Result(state, possible_actions[i]), possible_actions[i],
                  alpha, beta, color, history_table,
                  PerceptAddAction(
                    PerceptAddState(history, Result(state, possible_actions[i])),
                    possible_actions[i])),
         possible_actions, i, value, best_action, depth_limit, quiescence_limit,
         state, alpha, beta, color, history)

\* ChessAI::MinValue
MinValue(depth_limit, quiescence_limit, clock, state, action, alpha, beta, color, history_table, history) ==
  IF TerminalTest(state, history) # kNonterminal
  THEN ValueResult(UtilityFunction(state, color, history), history_table, clock)
  ELSE IF clock = 0 THEN NullResult(history_table, clock)
  ELSE IF depth_limit <= 0 /\ ~IsNonQuiescenceState(action)
  THEN ValueResult(UtilityHeuristic(state, color), history_table, clock - 1)
  ELSE Visited(depth_limit,
         MinValueLoop(SortByHistory(Actions(state), history_table), 1, Infinity,
                      kIndeterminateAction, depth_limit,
                      IF depth_limit <= 0 THEN quiescence_limit - 1
                      ELSE quiescence_limit,
                      clock - 1, state, alpha, beta, color, history_table,
                      history))

\* One MinValue call made by DepthLimitedMinimax, as the caller sees it.
MinValueCall(action, result) ==
  [action |-> action, null |-> result.null, value |-> result.value,
   deepest |-> result.deepest]

\* DepthLimitedMinimax passes alpha = -inf and beta = +inf to every MinValue
\* call, and the state's side to move as color.
RootMinValue(action, depth_limit, quiescence_limit, clock, state, history_table, history) ==
  MinValue(depth_limit - 1, quiescence_limit, clock, Result(state, action),
           action, -Infinity, Infinity, state.color_at_play_, history_table,
           history)

RECURSIVE DepthLimitedMinimaxLoop(_, _, _, _, _, _, _, _, _)

\* the body of the for loop of ChessAI::DepthLimitedMinimax once MinValue
\* has returned value for possible_actions[i]
DepthLimitedMinimaxStep(value, possible_actions, i, calls, depth_limit, quiescence_limit, state, history) ==
  IF value.null
  THEN [null |-> TRUE,
        calls |-> Append(calls, MinValueCall(possible_actions[i], value)),
        table |-> value.table, clock |-> value.clock]
  ELSE DepthLimitedMinimaxLoop(
         possible_actions, i + 1,
         Append(calls, MinValueCall(possible_actions[i], value)), depth_limit,
         quiescence_limit, value.clock, state, value.table, history)

\* the for loop of ChessAI::DepthLimitedMinimax over possible_actions after
\* pop_back(), from element i on; `calls' lists the MinValue calls made so far
DepthLimitedMinimaxLoop(possible_actions, i, calls, depth_limit, quiescence_limit, clock, state, history_table, history) ==
  IF i > Len(possible_actions) - 1
  THEN [null |-> FALSE, calls |-> calls, table |-> history_table, clock |-> clock]
  ELSE DepthLimitedMinimaxStep(
         RootMinValue(possible_actions[i], depth_limit, quiescence_limit, clock,
                      state, history_table, history),
         possible_actions, i, calls, depth_limit, quiescence_limit, state,
         history)

\* ChessAI::DepthLimitedMinimax from the first MinValue call, the one for
\* possible_actions.back(), whose result current_max_value is not compared
\* with nullptr
DepthLimitedMinimaxFrom(current_max_value, possible_actions, depth_limit, quiescence_limit, state, history) ==
  DepthLimitedMinimaxLoop(
    possible_actions, 1,
    <<MinValueCall(possible_actions[Len(possible_actions)], current_max_value)>>,
    depth_limit, quiescence_limit, current_max_value.clock, state,
    current_max_value.table, history)

\* ChessAI::DepthLimitedMinimax up to its return statement: the MinValue
\* calls it makes and whether a call inside the loop made it return nullptr.
\* possible_actions is not empty here.
DepthLimitedMinimaxOver(possible_actions, depth_limit, quiescence_limit, clock, state, history_table, history) ==
  DepthLimitedMinimaxFrom(
    RootMinValue(possible_actions[Len(possible_actions)], depth_limit,
                 quiescence_limit, clock, state, history_table, history),
    possible_actions, depth_limit, quiescence_limit, state, history)

DepthLimitedMinimaxCalls(depth_limit, quiescence_limit, clock, state, history_table, history) ==
  DepthLimitedMinimaxOver(Actions(state), depth_limit, quiescence_limit, clock,
                          state, history_table, history)

\* `value > current_max_value' compares two std::shared_ptr<float>, that is
\* the addresses of the two floats, not the floats.  The order of the
\* addresses of separate allocations is not specified, so each comparison
\* can come out either way: best_action ends as possible_actions.back() or
\* as any action of the loop.
BestActionCandidates(calls) == {calls[k].action : k \in DOMAIN calls}

\* the std::shared_ptr<Action> values DepthLimitedMinimax can return
DepthLimitedMinimaxReturns(run) ==
  IF run.null THEN {[null |-> TRUE, action |-> kIndeterminateAction]}
  ELSE {[null |-> FALSE, action |-> a] : a \in BestActionCandidates(run.calls)}

\* the quiescence_limit ChessAI::Minimax hands to DepthLimitedMinimax
kQuiescenceLimit == 4

\* MinimaxFirstMove with the last element read instead of the first, as
\* DepthLimitedMinimax does with possible_actions.back()
MinimaxFirstMoveAsBack(state) == Actions(state)[Len(Actions(state))]

\* `Action last_move = Actions(state)[0];' of ChessAI::Minimax
MinimaxFirstMove(state) == Actions(state)[1]

(***************************************************************************)
(* The engine (ChessAI) as a state machine                                 *)
(***************************************************************************)
VARIABLES
  current_state_,     \* ChessAI::current_state_
  history_,           \* ChessAI::history_
  half_move_number_,  \* ChessAI::half_move_number_
  pc,                 \* where the engine is: "idle", inside Minimax's loop
                      \* ("searching"), after it ("returning"), or past the
                      \* out-of-bounds read of Minimax ("undefined")
  depth_limit,        \* Minimax: depth_limit
  last_move,          \* Minimax: last_move
  history_table,      \* Minimax: history_table
  move,               \* Minimax: move, the last DepthLimitedMinimax result
  dlm_calls,          \* the MinValue calls of the last DepthLimitedMinimax
  completed,          \* iterations of this Move() that returned an action
  root,               \* the state the last Move() was invoked on
  returned,           \* the value the last Move() returned
  worst_mode_,        \* ChessAI::worst_mode_
  call                \* a call of one of the engine's functions on its own:
                      \* the function, its arguments and, once it has
                      \* returned, its result

vars == <<current_state_, history_, half_move_number_, pc, depth_limit,
          last_move, history_table, move, dlm_calls, completed, root, returned,
          worst_mode_, call, sort_equals>>

NoBoards == [i \in 0..(kNumberOfPieces - 1) |-> {}]

\* FenParser::operator(): the State of a piece placement
FenState(color_at_play, white_bitboards, black_bitboards, enpassant, castling) ==
  State(color_at_play, AllBitboardsInOneBoard(white_bitboards),
        AllBitboardsInOneBoard(black_bitboards), white_bitboards,
        black_bitboards, enpassant, castling)

\* 8/3pk3/4N3/4P3/8/8/8/6K1 b - -
PositionEnPassant ==
  FenState(kBlack,
           [NoBoards EXCEPT ![kKing] = {6}, ![kPawn] = {36}, ![kKnight] = {44}],
           [NoBoards EXCEPT ![kKing] = {52}, ![kPawn] = {51}], {}, {})

\* 2k5/8/8/8/8/8/1p6/R3K2R w KQ -
PositionCastle ==
  FenState(kWhite,
           [NoBoards EXCEPT ![kKing] = {4}, ![kRook] = {0, 7}],
           [NoBoards EXCEPT ![kKing] = {58}, ![kPawn] = {9}], {}, {0, 7})

\* 7k/5Q2/6K1/8/8/8/8/8 b - - (stalemate)
PositionStalemate ==
  FenState(kBlack,
           [NoBoards EXCEPT ![kKing] = {46}, ![kQueen] = {53}],
           [NoBoards EXCEPT ![kKing] = {63}], {}, {})

\* 6k1/6Q1/6K1/8/8/8/8/8 b - - (checkmate)
PositionCheckmate ==
  FenState(kBlack,
           [NoBoards EXCEPT ![kKing] = {46}, ![kQueen] = {54}],
           [NoBoards EXCEPT ![kKing] = {62}], {}, {})

\* 7k/6P1/8/8/8/8/8/K7 b - -
PositionPawn ==
  FenState(kBlack,
           [NoBoards EXCEPT ![kKing] = {0}, ![kPawn] = {54}],
           [NoBoards EXCEPT ![kKing] = {63}], {}, {})

\* 7k/6P1/7K/8/8/8/8/8 b - -
PositionOneMove ==
  FenState(kBlack,
           [NoBoards EXCEPT ![kKing] = {47}, ![kPawn] = {54}],
           [NoBoards EXCEPT ![kKing] = {63}], {}, {})

\* The FEN strings an engine is constructed on: the position, and the
\* half-move field, which ChessAI::ChessAI doubles into half_move_number_.
Fen(state, half_moves) == [state |-> state, half_moves |-> half_moves]

InitialFens ==
  {Fen(PositionEnPassant, 0), Fen(PositionCastle, 1), Fen(PositionStalemate, 0),
   Fen(PositionCheckmate, 0), Fen(PositionPawn, 1), Fen(PositionOneMove, 0)}

NoMove == [null |-> TRUE, action |-> kIndeterminateAction]

\* no function is being called on its own
NoCall == [fn |-> "none", args |-> <<>>, results |-> <<>>]

\* ChessAI::ChessAI
Init ==
  \E fen \in InitialFens :
    /\ current_state_ = fen.state
    /\ history_ = PerceptAddState(EmptyPerceptSequence, fen.state)
    /\ half_move_number_ = 2 * fen.half_moves
    /\ pc = "idle"
    /\ depth_limit = 1
    /\ last_move = kIndeterminateAction
    /\ history_table = EmptyHistoryTable
    /\ move = NoMove
    /\ dlm_calls = <<>>
    /\ completed = 0
    /\ root = fen.state
    /\ returned = NoMove
    /\ worst_mode_ = FALSE
    /\ call = NoCall
    /\ sort_equals \in SortEquals

\* a commit that appends the action but not the new state
CommitAsWithoutState(action) ==
  /\ current_state_' = Result(current_state_, action)
  /\ history_' = PerceptAddAction(history_, action)
  /\ half_move_number_' = half_move_number_ + 1

\* the commit shared by Move and UpdateMove
Commit(action) ==
  /\ current_state_' = Result(current_state_, action)
  /\ history_' = PerceptAddAction(PerceptAddState(history_, current_state_'), action)
  /\ half_move_number_' = half_move_number_ + 1

\* ChessAI::UpdateMove, called with a move the side to move can play
UpdateMove(action) ==
  /\ pc = "idle"
  /\ half_move_number_ < MaxPly
  /\ Commit(action)
  /\ UNCHANGED <<pc, depth_limit, last_move, history_table, move, dlm_calls,
                 completed, root, returned, worst_mode_, call, sort_equals>>

\* ChessAI::Move up to the do-while loop of ChessAI::Minimax.  On a state
\* without legal actions `Actions(state)[0]' reads past the end of an empty
\* vector: the behaviour is undefined from there on.
MoveBegin ==
  /\ pc = "idle"
  /\ half_move_number_ < MaxPly
  /\ root' = current_state_
  /\ depth_limit' = 1
  /\ history_table' = EmptyHistoryTable
  /\ move' = NoMove
  /\ dlm_calls' = <<>>
  /\ completed' = 0
  /\ IF ActionSet(current_state_) = {}
     THEN /\ pc' = "undefined"
          /\ last_move' = kIndeterminateAction
     ELSE /\ pc' = "searching"
          /\ last_move' = MinimaxFirstMove(current_state_)
  /\ UNCHANGED <<current_state_, history_, half_move_number_, returned,
                 worst_mode_, call, sort_equals>>

\* MinimaxPass without the test `move != nullptr' before `last_move = *move'
MinimaxPassAsUnchecked(run) ==
  /\ move' \in DepthLimitedMinimaxReturns(run)
  /\ dlm_calls' = run.calls
  /\ history_table' = run.table
  /\ depth_limit' = depth_limit + 1
  /\ last_move' = move'.action
  /\ completed' = IF move'.null THEN completed ELSE completed + 1
  /\ pc' \in (IF (\E k \in DOMAIN run.calls : run.calls[k].null)
                   \/ depth_limit >= MaxDepth
              THEN {"returning"} ELSE {"searching", "returning"})

\* One pass of the do-while loop of ChessAI::Minimax, DepthLimitedMinimax
\* having made the calls of `run'.  The loop goes on only while the clock is
\* below the limit, which it is not once a poll has found it exceeded.
MinimaxPass(run) ==
  /\ move' \in DepthLimitedMinimaxReturns(run)
  /\ dlm_calls' = run.calls
  /\ history_table' = run.table
  /\ depth_limit' = depth_limit + 1
  /\ last_move' = IF move'.null THEN last_move ELSE move'.action
  /\ completed' = IF move'.null THEN completed ELSE completed + 1
  /\ pc' \in (IF (\E k \in DOMAIN run.calls : run.calls[k].null)
                   \/ depth_limit >= MaxDepth
              THEN {"returning"} ELSE {"searching", "returning"})

\* polls is the number of clock polls of this pass that find the limit not
\* exceeded.
MoveIterate(polls) ==
  /\ pc = "searching"
  /\ MinimaxPass(DepthLimitedMinimaxCalls(depth_limit, kQuiescenceLimit, polls,
                                          current_state_,
                                          history_table, history_))
  /\ UNCHANGED <<current_state_, history_, half_move_number_, root, returned,
                 worst_mode_, call, sort_equals>>

\* ChessAI::Move after Minimax has returned last_move
MoveCommit ==
  /\ pc = "returning"
  /\ Commit(last_move)
  /\ returned' = [null |-> FALSE, action |-> last_move]
  /\ pc' = "idle"
  /\ depth_limit' = 1
  /\ last_move' = kIndeterminateAction
  /\ history_table' = EmptyHistoryTable
  /\ move' = NoMove
  /\ dlm_calls' = <<>>
  /\ UNCHANGED <<completed, root, worst_mode_, call, sort_equals>>

Next ==
  \/ \E action \in ActionSet(current_state_) : UpdateMove(action)
  \/ MoveBegin
  \/ \E polls \in 0..MaxPolls : MoveIterate(polls)
  \/ MoveCommit

Spec == Init /\ [][Next]_vars

(***************************************************************************)
(* A game fed to the engine move by move: the percept sequence             *)
(***************************************************************************)
\* the longest game fed to an engine through UpdateMove
MaxHistoryPly == 9

\* kn6/8/8/3p4/6p1/8/7P/KN6 w - -
PositionShuffle ==
  FenState(kWhite,
           [NoBoards EXCEPT ![kKing] = {0}, ![kKnight] = {1}, ![kPawn] = {15}],
           [NoBoards EXCEPT ![kKing] = {56}, ![kKnight] = {57}, ![kPawn] = {30, 35}],
           {}, {})

\* The moves the game is made of go to B1, C3, H3, D5, C6 or B8: the knights
\* go out and back, H2-H3 is a pawn move, G4xH3 a capture by a pawn and
\* C3xD5 a capture by a piece.
HistoryTargets == {1, 18, 23, 35, 42, 57}

HistoryActions(state) ==
  {action \in ActionSet(state) : ActionToPieceAfter(action) \subseteq HistoryTargets}

\* ChessAI::ChessAI on the FEN of PositionShuffle
InitHistory ==
  /\ current_state_ = PositionShuffle
  /\ history_ = PerceptAddState(EmptyPerceptSequence, PositionShuffle)
  /\ half_move_number_ = 0
  /\ pc = "idle"
  /\ depth_limit = 1
  /\ last_move = kIndeterminateAction
  /\ history_table = EmptyHistoryTable
  /\ move = NoMove
  /\ dlm_calls = <<>>
  /\ completed = 0
  /\ root = PositionShuffle
  /\ returned = NoMove
  /\ worst_mode_ = FALSE
  /\ call = NoCall
  /\ sort_equals \in SortEquals

\* ChessAI::UpdateMove, called with the next move of the game
UpdateMoveOfGame(action) ==
  /\ pc = "idle"
  /\ half_move_number_ < MaxHistoryPly
  /\ Commit(action)
  /\ UNCHANGED <<pc, depth_limit, last_move, history_table, move, dlm_calls,
                 completed, root, returned, worst_mode_, call, sort_equals>>

NextHistory ==
  \E action \in HistoryActions(current_state_) : UpdateMoveOfGame(action)

SpecHistory == InitHistory /\ [][NextHistory]_vars

(***************************************************************************)
(* The engine's functions called on their own                              *)
(***************************************************************************)
\* The calls made: the function and its arguments.
\*   Action: every from-square with its mirror as to-square for both
\*     colours, and for three pairs of squares every piece, colour, captured
\*     piece and promotion piece with no flag, one flag or all flags set
\*     (flags: double push, queen-side castle, king-side castle, check,
\*     capture, en passant, promotion);
\*   ToIndices, Separated: the bitboards over A1, B1, D5 and H8;
\*   UtilityHeuristic, UtilityFunction, Actions: the positions above.
\* k7/8/2p1p3/3p4/2PKP2p/7P/8/8 w - -: c4xd5, c6xd5, e4xd5, e6xd5 and Kd4xd5
\* are five captures in a row
PositionExchange ==
  FenState(kWhite,
           [NoBoards EXCEPT ![kKing] = {27}, ![kPawn] = {23, 26, 28}],
           [NoBoards EXCEPT ![kKing] = {56}, ![kPawn] = {31, 35, 42, 44}],
           {}, {})

\* a clock that does not reach time_limit while a search goes on
NoTimeLimit == 1000000

RECURSIVE TableBefore(_, _)

\* the history table ChessAI::Minimax hands to the iteration with
\* depth_limit `limit': the table the iterations before it have filled
TableBefore(limit, state) ==
  IF limit <= 1 THEN EmptyHistoryTable
  ELSE DepthLimitedMinimaxCalls(
         limit - 1, kQuiescenceLimit, NoTimeLimit, state,
         TableBefore(limit - 1, state),
         PerceptAddState(EmptyPerceptSequence, state)).table

CallArguments ==
  LET flags == {[i \in 1..7 |-> i = j] : j \in 0..7} \cup {[i \in 1..7 |-> TRUE]}
      pairs == {<<0, 63>>, <<12, 28>>, <<63, 1>>}
      positions == {PositionEnPassant, PositionCastle, PositionStalemate,
                    PositionCheckmate, PositionPawn, PositionOneMove,
                    PositionShuffle}
      colors == {kWhite, kBlack}
      pieces == 0..(kNumberOfPieces - 1)
      origins == {0, 7, 25, 27, 36, 56, 63}
      others == {9, 24, 31, 32, 45, 59}
      \* r3k2r/8/8/8/8/8/8/R3K2R w KQkq - and the same with black to move
      castling == [c \in colors |->
                    FenState(c, [NoBoards EXCEPT ![kKing] = {4}, ![kRook] = {0, 7}],
                             [NoBoards EXCEPT ![kKing] = {60}, ![kRook] = {56, 63}],
                             {}, {0, 7, 56, 63})]
      \* 4r2k/8/8/8/8/8/4R3/R3K3 w - -: the rook on E2 shields the king
      shielded == FenState(kWhite,
                           [NoBoards EXCEPT ![kKing] = {4}, ![kRook] = {0, 12}],
                           [NoBoards EXCEPT ![kKing] = {63}, ![kRook] = {60}],
                           {}, {})
      \* 7k/8/8/8/8/8/p7/K6N w - -: after a knight move and any reply, K:a2
      \* leaves king and knight against king
      cornered == FenState(kWhite,
                           [NoBoards EXCEPT ![kKing] = {0}, ![kKnight] = {7}],
                           [NoBoards EXCEPT ![kKing] = {63}, ![kPawn] = {8}],
                           {}, {})
      \* the rook's squares of a castle and its two flags
      castles == [c \in colors |->
                   IF c = kWhite THEN {<<0, 3, TRUE, FALSE>>, <<7, 5, FALSE, TRUE>>}
                   ELSE {<<56, 59, TRUE, FALSE>>, <<63, 61, FALSE, TRUE>>}]
  IN {[fn |-> "Action",
       args |-> <<kPawn, c, {sq}, {63 - sq}, FALSE, FALSE, FALSE, FALSE, FALSE,
                  FALSE, kKing, FALSE, kQueen>>] : sq \in Squares, c \in colors}
     \cup {[fn |-> "Action",
            args |-> <<p, c, {sq[1]}, {sq[2]}, f[1], f[2], f[3], f[4], f[5],
                       f[6], x, f[7], q>>] :
              p \in pieces, c \in colors, sq \in pairs, f \in flags,
              x \in pieces, q \in promotable_pieces}
     \cup {[fn |-> fn, args |-> <<b>>] :
              fn \in {"ToIndices", "Separated"}, b \in SUBSET {0, 1, 35, 63}}
     \cup {[fn |-> "UtilityHeuristic", args |-> <<state, c>>] :
              state \in positions, c \in colors}
     \cup {[fn |-> "UtilityFunction",
            args |-> <<state, c, PerceptAddState(EmptyPerceptSequence, state)>>] :
              state \in positions, c \in colors}
     \cup {[fn |-> "Actions", args |-> <<state>>] :
              state \in positions \cup {shielded}}
     \cup {[fn |-> fn, args |-> <<{sq}, p[1] \cup {sq}, p[2]>>] :
              fn \in {"RookMoves", "BishopMoves", "QueenMoves"},
              sq \in origins,
              p \in {q \in (SUBSET others) \X (SUBSET others) :
                       q[1] \cap q[2] = {}}}
     \cup UNION {{[fn |-> "Result",
                    args |-> <<castling[c],
                               Action(kRook, c, {m[1]}, {m[2]}, FALSE, m[3], m[4],
                                      FALSE, FALSE, FALSE, kKing, FALSE, kQueen)>>] :
                     m \in castles[c]} : c \in colors}
     \cup {[fn |-> "DepthLimitedMinimax",
            args |-> <<d, state, TableBefore(d, state),
                       PerceptAddState(EmptyPerceptSequence, state)>>] :
              d \in 1..2, state \in {PositionPawn, PositionOneMove}}
     \cup {[fn |-> "DepthLimitedMinimax",
            args |-> <<1, state, EmptyHistoryTable,
                       PerceptAddState(EmptyPerceptSequence, state)>>] :
              state \in {PositionExchange, PositionEnPassant, PositionShuffle,
                          PositionCastle}}
     \cup {[fn |-> "DepthLimitedMinimax",
            args |-> <<3, cornered, EmptyHistoryTable,
                       PerceptAddState(EmptyPerceptSequence, cornered)>>]}

\* a process that has made none of its calls yet; worst_mode_ is a static
\* member, false until SetWorstMode is called
InitCalls ==
  /\ sort_equals \in SortEquals
  /\ \E c \in CallArguments : call = [fn |-> c.fn, args |-> c.args, results |-> <<>>]
  /\ worst_mode_ = FALSE
  /\ current_state_ = PositionShuffle
  /\ history_ = PerceptAddState(EmptyPerceptSequence, PositionShuffle)
  /\ half_move_number_ = 0
  /\ pc = "idle"
  /\ depth_limit = 1
  /\ last_move = kIndeterminateAction
  /\ history_table = EmptyHistoryTable
  /\ move = NoMove
  /\ dlm_calls = <<>>
  /\ completed = 0
  /\ root = PositionShuffle
  /\ returned = NoMove

\* the function `fn' is called, once for each value of worst_mode_, and
\* returns `value'
Returns(fn, value) ==
  /\ call.fn = fn
  /\ \A i \in DOMAIN call.results : call.results[i].worst_mode # worst_mode_
  /\ call' = [call EXCEPT !.results =
                 Append(@, [worst_mode |-> worst_mode_, value |-> value])]
  /\ UNCHANGED <<current_state_, history_, half_move_number_, pc, depth_limit,
                 last_move, history_table, move, dlm_calls, completed, root,
                 returned, worst_mode_, sort_equals>>

\* Action::Action
CallAction ==
  LET a == call.args
  IN Returns("Action", Action(a[1], a[2], a[3], a[4], a[5], a[6], a[7], a[8], a[9], a[10], a[11], a[12], a[13]))

\* Bitboard::ToIndices
CallToIndices == Returns("ToIndices", ToIndices(call.args[1]))

\* Bitboard::Separated
CallSeparated == Returns("Separated", Separated(call.args[1]))

\* ChessAI::UtilityHeuristic
CallUtilityHeuristic ==
  Returns("UtilityHeuristic", UtilityHeuristic(call.args[1], call.args[2]))

\* ChessAI::UtilityFunction
CallUtilityFunction ==
  Returns("UtilityFunction", UtilityFunction(call.args[1], call.args[2], call.args[3]))

\* ChessAI::Actions
CallActions == Returns("Actions", Actions(call.args[1]))

\* ChessAI::Result
CallResult == Returns("Result", Result(call.args[1], call.args[2]))

\* MoveEngine::RookMoves
CallRookMoves ==
  Returns("RookMoves", RookMoves(call.args[1], call.args[2], call.args[3]))

\* MoveEngine::BishopMoves
CallBishopMoves ==
  Returns("BishopMoves", BishopMoves(call.args[1], call.args[2], call.args[3]))

\* MoveEngine::QueenMoves
CallQueenMoves ==
  Returns("QueenMoves", QueenMoves(call.args[1], call.args[2], call.args[3]))

\* ChessAI::DepthLimitedMinimax, called as ChessAI::Minimax calls it and
\* with a clock that does not run out
CallDepthLimitedMinimax ==
  Returns("DepthLimitedMinimax",
          DepthLimitedMinimaxCalls(call.args[1], kQuiescenceLimit, NoTimeLimit,
                                   call.args[2], call.args[3], call.args[4]))

\* ChessAI::SetWorstMode
SetWorstMode(enabled) ==
  /\ worst_mode_' = enabled
  /\ UNCHANGED <<current_state_, history_, half_move_number_, pc, depth_limit,
                 last_move, history_table, move, dlm_calls, completed, root,
                 returned, call, sort_equals>>

NextCalls ==
  \/ CallAction
  \/ CallToIndices
  \/ CallSeparated
  \/ CallUtilityHeuristic
  \/ CallUtilityFunction
  \/ CallActions
  \/ CallResult
  \/ CallRookMoves
  \/ CallBishopMoves
  \/ CallQueenMoves
  \/ CallDepthLimitedMinimax
  \/ \E enabled \in BOOLEAN : SetWorstMode(enabled)

SpecCalls == InitCalls /\ [][NextCalls]_vars

\* a process that is about to call DepthLimitedMinimax
InitSearches == InitCalls /\ call.fn = "DepthLimitedMinimax"

NextSearches ==
  \/ CallDepthLimitedMinimax
  \/ \E enabled \in BOOLEAN : SetWorstMode(enabled)

\* A call that has been made runs until it returns: the process does
\* nothing else in between.
SpecSearches ==
  InitSearches /\ [][NextSearches]_vars /\ WF_vars(CallDepthLimitedMinimax)

(***************************************************************************)
(* Properties                                                              *)
(***************************************************************************)
PiecesOf(state, color) == IF color = kWhite THEN state.whites_ ELSE state.blacks_
AllOf(state, color) ==
  IF color = kWhite THEN state.all_whites_ ELSE state.all_blacks_

\* the squares the pieces of `color' can move to in `state'
MoveSquares(state, color) ==
  AllStandardMovesInOneBitboard(PiecesOf(state, color), AllOf(state, color),
                                AllOf(state, OtherColor(color)), color)

KingAttacked(state, color) ==
  (PiecesOf(state, color)[kKing] \cap MoveSquares(state, OtherColor(color))) # {}

BoardsConsistent(state) ==
  /\ state.all_whites_ = AllBitboardsInOneBoard(state.whites_)
  /\ state.all_blacks_ = AllBitboardsInOneBoard(state.blacks_)
  /\ state.all_whites_ \cap state.all_blacks_ = {}

PiecesDisjoint(boards) ==
  \A j, k \in DOMAIN boards : j # k => boards[j] \cap boards[k] = {}

\* the invariants of the data model
DataModelInvariants(state) ==
  /\ BoardsConsistent(state)
  /\ PiecesDisjoint(state.whites_) /\ PiecesDisjoint(state.blacks_)
  /\ Cardinality(state.whites_[kKing]) = 1
  /\ Cardinality(state.blacks_[kKing]) = 1
  /\ Cardinality(state.en_passant_squares_) <= 1
  /\ state.en_passant_squares_ \subseteq (Rank(3) \cup Rank(6))
  /\ state.castling_squares_ \subseteq {0, 7, 56, 63}

\* C1: for a state that satisfies the data-model invariants and every action
\* of Actions, the king of the side that moved is, in Result, on none of the
\* squares the opponent's pieces can move to.
C1_KingUnattackedAfterResult ==
  DataModelInvariants(current_state_) =>
    \A action \in ActionSet(current_state_) :
      ~KingAttacked(Result(current_state_, action),
                    current_state_.color_at_play_)

\* C2: in every state reached by applying Result to actions of Actions,
\* all_whites is the union of the six white boards, all_blacks the union of
\* the six black boards, and no square is in both.
C2_AllBoardsConsistent == BoardsConsistent(current_state_)

\* C3: in every state reached by applying Result to actions of Actions, the
\* six boards of a colour are pairwise disjoint, and no action of Actions
\* (en-passant actions included) moves a piece onto a square of its own
\* colour.
C3_OnePiecePerSquare ==
  /\ PiecesDisjoint(current_state_.whites_)
  /\ PiecesDisjoint(current_state_.blacks_)
  /\ \A action \in ActionSet(current_state_) :
       ActionToPieceAfter(action) \cap AllFriendly(current_state_) = {}

\* the friendly pawns standing directly east or west of the enemy pawn that
\* has just made a double push
PawnsBesidePushedPawn(state) ==
  {p \in Friendly(state)[kPawn] :
     \E e \in state.en_passant_squares_ \cap Enemy(state)[kPawn] :
       /\ e \div 8 = p \div 8
       /\ (p = e + 1 \/ p = e - 1)}

\* the square behind the pushed pawn: Move(ep, N) for white, Move(ep, S) for
\* black
EnPassantTarget(state) ==
  Moving(state.en_passant_squares_,
         IF state.color_at_play_ = kWhite THEN kNorth ELSE kSouth)

\* C4: when the side to move has a pawn directly east or west of an enemy
\* pawn that has just made a double push, Actions has an en-passant action
\* of that pawn onto the square behind the pushed pawn, and Result of it
\* removes the pushed pawn.
C4_EnPassantDiagonal ==
  \A p \in PawnsBesidePushedPawn(current_state_) :
    \E action \in ActionSet(current_state_) :
      /\ ActionToWasEnpassantCapture(action)
      /\ ActionToPieceBefore(action) = {p}
      /\ ActionToPieceAfter(action) = EnPassantTarget(current_state_)
      /\ PiecesOf(Result(current_state_, action),
                  OtherColor(current_state_.color_at_play_))[kPawn]
           \cap current_state_.en_passant_squares_ = {}

\* the four castling rights: the rook's square, its colour, the squares
\* between king and rook, the king's square after the castle, the rook's
\* square after the castle and the side
castling_rights ==
  { [rook |-> 0, color |-> kWhite, between |-> {1, 2, 3}, king |-> 2,
     rook_after |-> 3, queen_side |-> TRUE],
    [rook |-> 7, color |-> kWhite, between |-> {5, 6}, king |-> 6,
     rook_after |-> 5, queen_side |-> FALSE],
    [rook |-> 56, color |-> kBlack, between |-> {57, 58, 59}, king |-> 58,
     rook_after |-> 59, queen_side |-> TRUE],
    [rook |-> 63, color |-> kBlack, between |-> {61, 62}, king |-> 62,
     rook_after |-> 61, queen_side |-> FALSE] }

CastlePossible(state, right) ==
  /\ right.rook \in state.castling_squares_
  /\ state.color_at_play_ = right.color
  /\ right.rook \in Friendly(state)[kRook]
  /\ right.between \cap (state.all_whites_ \cup state.all_blacks_) = {}
  /\ right.king \notin MoveSquares(state, OtherColor(right.color))

\* C5: for each castling right present in the state, when it is that
\* colour's turn, the rook is on the right's square, the squares between
\* king and rook are empty and the king's landing square is not attacked,
\* Actions has a castle-flagged rook action from the rook's square to D1, F1,
\* D8 or F8.
C5_FourCastles ==
  \A right \in castling_rights :
    CastlePossible(current_state_, right) =>
      \E action \in ActionSet(current_state_) :
        /\ ActionToPieceMoved(action) = kRook
        /\ ActionToPieceBefore(action) = {right.rook}
        /\ ActionToPieceAfter(action) = {right.rook_after}
        /\ IF right.queen_side THEN ActionToQueenSideCastle(action)
           ELSE ActionToKingSideCastle(action)

\* C6: on a terminal state, for either friendly colour, UtilityFunction is
\* 0 when TerminalTest reports a draw, -infinity when the friendly colour is
\* checkmated and +infinity when the other colour is.
C6_UtilityOfTerminal ==
  \A friendly_color \in {kWhite, kBlack} :
    LET outcome == TerminalTest(current_state_, history_)
        utility == UtilityFunction(current_state_, friendly_color, history_)
    IN /\ outcome = kDraw => utility = 0
       /\ outcome = kLoss =>
            utility = IF friendly_color = current_state_.color_at_play_
                      THEN -Infinity ELSE Infinity

\* a pass of Minimax's loop has just run DepthLimitedMinimax
AfterPass == pc \in {"searching", "returning"} /\ dlm_calls # <<>>

TimedOut == \E k \in DOMAIN dlm_calls : dlm_calls[k].null

\* C7: when no MinValue call timed out, the action DepthLimitedMinimax
\* returns has a MinValue result that is maximal among the results of all
\* actions of the state.
C7_ReturnsMaximalAction ==
  (AfterPass /\ ~TimedOut /\ ~move.null) =>
    \A j, k \in DOMAIN dlm_calls :
      dlm_calls[j].action = move.action =>
        dlm_calls[j].value >= dlm_calls[k].value

\* C8: when a MinValue call made by DepthLimitedMinimax returns null, the
\* first one included, DepthLimitedMinimax returns null and Minimax keeps
\* the move of the last completed iteration.
C8_TimeOutDiscardsIteration ==
  [][(pc = "searching" /\ \E k \in DOMAIN dlm_calls' : dlm_calls'[k].null)
       => (move'.null /\ last_move' = last_move)]_vars

\* the action of Actions(state) that no other action is below in the
\* unsigned order of the 32-bit words
SmallestEncoding(state) ==
  CHOOSE a \in ActionSet(state) :
    \A b \in ActionSet(state) : ~ActionLess(b, a)

\* C9: when no iteration of a Move() call returned an action and the
\* position has a legal move, Move() returns the legal action with the
\* smallest unsigned 32-bit encoding.
C9_FallbackIsSmallestAction ==
  (pc = "idle" /\ ~returned.null /\ completed = 0) =>
    returned.action = SmallestEncoding(root)

\* a Move() call on a position with several legal moves returned without a
\* completed iteration
C9_Witness ==
  /\ pc = "idle" /\ ~returned.null /\ completed = 0
  /\ Cardinality(ActionSet(root)) >= 2

\* C10: Move() on a position whose Actions list is empty does not read an
\* element of the empty list: it returns the no-move value.
C10_EmptyRootReturnsNoMove == pc # "undefined"


\* the last n elements of seq, all of them when there are fewer
LastStates(seq, n) ==
  IF Len(seq) <= n THEN seq ELSE SubSeq(seq, Len(seq) - n + 1, Len(seq))

\* C11: every PerceptSequence::Add(State) leaves a window of at most 8
\* states: the most recently added ones, in insertion order, the oldest
\* evicted first.
C11_WindowOfEight ==
  [][history_'.state_history_
       = LastStates(Append(history_.state_history_, current_state_'),
                    kMaxHistory)]_vars

\* C12: when an action is appended, moves_since_capture becomes 0 if it is a
\* capture and grows by one otherwise, and moves_since_pawn_move becomes 0 if
\* it is a pawn move and grows by one otherwise.
C12_CountersSinceCaptureAndPawnMove ==
  [][\A action \in ActionSet(current_state_) :
       current_state_' = Result(current_state_, action) =>
         /\ history_'.moves_since_capture_
              = IF ActionToWasCapture(action) THEN 0
                ELSE history_.moves_since_capture_ + 1
         /\ history_'.moves_since_pawn_movement_
              = IF ActionToPieceMoved(action) = kPawn THEN 0
                ELSE history_.moves_since_pawn_movement_ + 1]_vars

\* the half-move between two consecutive states of the window was neither a
\* pawn move nor a capture
QuietBetween(before, after) ==
  /\ before.whites_[kPawn] = after.whites_[kPawn]
  /\ before.blacks_[kPawn] = after.blacks_[kPawn]
  /\ NumberOfBits(before.all_whites_ \cup before.all_blacks_)
       = NumberOfBits(after.all_whites_ \cup after.all_blacks_)

\* the window holds 8 states or more, each of the first four equals the
\* state four positions later, and the half-moves of the window (the last 8
\* appended, or all of them when fewer were appended) are quiet
RepeatedQuietWindow(window) ==
  /\ Len(window) >= 8
  /\ \A i \in 1..4 : window[i] = window[i + 4]
  /\ \A i \in 1..(Len(window) - 1) : QuietBetween(window[i], window[i + 1])

\* C13: when the side to move has a legal action, the window holds 8 states,
\* each of the first four equals the state four positions later and none of
\* the last 8 half-moves was a pawn move or a capture, TerminalTest returns
\* Draw.
C13_RepetitionIsDraw ==
  (ActionSet(current_state_) # {}
     /\ RepeatedQuietWindow(history_.state_history_))
    => TerminalTest(current_state_, history_) = kDraw

\* percept histories of a state: the engine's own and one that satisfies
\* the repetition rule and the fifty-move rule
HistoriesOf(state) ==
  {history_,
   [state_history_ |-> [i \in 1..kMaxHistory |-> state],
    moves_since_capture_ |-> 51, moves_since_pawn_movement_ |-> 51]}

\* C14: on a state without actions TerminalTest returns Loss if the king of
\* the side to move is on a square the opponent's pieces can move to and
\* Draw otherwise, whatever the history; on a state with actions it returns
\* neither Loss nor Win.
C14_TerminalTestOutcomes ==
  IF ActionSet(current_state_) = {}
  THEN \A history \in HistoriesOf(current_state_) :
         TerminalTest(current_state_, history)
           = IF KingAttacked(current_state_, current_state_.color_at_play_)
             THEN kLoss ELSE kDraw
  ELSE \A history \in HistoriesOf(current_state_) :
         TerminalTest(current_state_, history) \notin {kLoss, kWin}

\* a checkmated side to move, on which TerminalTest returns Loss
C14_Witness ==
  /\ ActionSet(current_state_) = {}
  /\ KingAttacked(current_state_, current_state_.color_at_play_)
  /\ TerminalTest(current_state_, history_) = kLoss

\* C15: in every state produced by Result the en-passant bitboard has at
\* most one bit set, and a set bit lies on rank 3 or rank 6, the square
\* behind the pawn that has just advanced two squares.
C15_EnPassantBehindPawn ==
  /\ Cardinality(current_state_.en_passant_squares_) <= 1
  /\ current_state_.en_passant_squares_ \subseteq (Rank(3) \cup Rank(6))

\* C16: in every state reached from a position with one king of each colour
\* by applying Result to actions of Actions, each colour has exactly one
\* king, and no action of Actions captures a king.
C16_OneKingEach ==
  /\ Cardinality(current_state_.whites_[kKing]) = 1
  /\ Cardinality(current_state_.blacks_[kKing]) = 1
  /\ \A action \in ActionSet(current_state_) :
       ActionToPieceAfter(action) \cap Enemy(current_state_)[kKing] = {}

\* the results of the call of `fn', if that is the function called
ResultsOf(fn) == IF call.fn = fn THEN Range(call.results) ELSE {}

\* C17: for an action built by the Action constructor from single-bit from
\* and to squares, every accessor returns the value passed in: colour,
\* moved piece, from, to, the double-push, castle, check, capture,
\* en-passant and promotion flags, the captured piece of a capture and the
\* promotion piece of a promotion; the fields do not disturb each other.
C17_CodecRoundTrip ==
  \A r \in ResultsOf("Action") :
    LET a == call.args
        w == r.value
    IN /\ ActionToPieceMoved(w) = a[1]
       /\ ActionToColor(w) = a[2]
       /\ ActionToPieceBefore(w) = a[3]
       /\ ActionToPieceAfter(w) = a[4]
       /\ ActionToDoublePawnForward(w) = a[5]
       /\ ActionToQueenSideCastle(w) = a[6]
       /\ ActionToKingSideCastle(w) = a[7]
       /\ ActionToEnemyInCheck(w) = a[8]
       /\ ActionToWasCapture(w) = a[9]
       /\ ActionToWasEnpassantCapture(w) = a[10]
       /\ a[9] => ActionToPieceCaptured(w) = a[11]
       /\ ActionToWasPromotion(w) = a[12]
       /\ a[12] => ActionToPromotedTo(w) = a[13]

\* the constructor has built the action of a king's capture by a promoting
\* pawn, with every flag set
C17_Witness ==
  \E r \in ResultsOf("Action") :
    /\ \A i \in 5..10 : call.args[i]
    /\ call.args[12] /\ call.args[11] = kKing /\ call.args[13] = kQueen
    /\ ActionToPieceCaptured(r.value) = kKing
    /\ ActionToPromotedTo(r.value) = kQueen

\* C19: for every bitboard, the empty one included, ToIndices is the
\* ascending list of the set bit positions, of length popcount, and
\* Separated has length popcount with exactly one bit set in every element.
C19_IndicesAndSeparated ==
  /\ \A r \in ResultsOf("ToIndices") :
       /\ Len(r.value) = NumberOfBits(call.args[1])
       /\ Range(r.value) = call.args[1]
       /\ \A i, j \in DOMAIN r.value : i < j => r.value[i] < r.value[j]
  /\ \A r \in ResultsOf("Separated") :
       /\ Len(r.value) = NumberOfBits(call.args[1])
       /\ \A i \in DOMAIN r.value : NumberOfBits(r.value[i]) = 1

\* C20: UtilityHeuristic called with worst mode enabled returns the negation
\* of what it returns, for the same state and colour, with worst mode
\* disabled; UtilityFunction returns the same value in both modes.
C20_WorstModeNegatesHeuristic ==
  /\ \A r, q \in ResultsOf("UtilityHeuristic") :
       (r.worst_mode /\ ~q.worst_mode) => r.value = -q.value
  /\ \A r, q \in ResultsOf("UtilityFunction") : r.value = q.value

\* reflection across the horizontal axis: rank r becomes rank 9 - r
MirrorSquare(square) == 8 * (7 - (square \div 8)) + (square % 8)
MirrorBoard(board) == {MirrorSquare(square) : square \in board}

\* the reflected position with the colours of the pieces, the side to move,
\* the castling rights and the en-passant square swapped
MirrorState(state) ==
  State(OtherColor(state.color_at_play_),
        MirrorBoard(state.all_blacks_), MirrorBoard(state.all_whites_),
        [k \in DOMAIN state.blacks_ |-> MirrorBoard(state.blacks_[k])],
        [k \in DOMAIN state.whites_ |-> MirrorBoard(state.whites_[k])],
        MirrorBoard(state.en_passant_squares_),
        MirrorBoard(state.castling_squares_))

\* the reflected action: colour bit flipped, from and to squares mirrored
MirrorAction(action) ==
  [hi |-> action.hi,
   lo |-> (1 - (action.lo % 2))
            + 2 * MirrorSquare((action.lo \div 2) % 64)
            + 128 * MirrorSquare((action.lo \div 128) % 64)]

\* C18: the actions of the reflected, colour-swapped position are exactly
\* the reflections of the actions of the position, castle actions included.
C18_MirroredActions ==
  \A r \in ResultsOf("Actions") :
    ActionSet(MirrorState(call.args[1]))
      = {MirrorAction(action) : action \in Range(r.value)}

\* the state appended last to the percept history
LastState(history) == history.state_history_[Len(history.state_history_)]

\* C21: every UpdateMove(action) and every Move() leaves current_state_
\* equal to Result of the previous current state and the committed action,
\* appends it to the percept history as the most recent state and increases
\* half_move_number_ by exactly one; nothing else changes any of the three.
C21_CommitKeepsHistoryInStep ==
  [][(current_state_' # current_state_ \/ history_' # history_
        \/ half_move_number_' # half_move_number_)
       => /\ half_move_number_' = half_move_number_ + 1
          /\ LastState(history_') = current_state_'
          /\ \E action \in ActionSet(current_state_) \cup {last_move} :
               current_state_' = Result(current_state_, action)]_vars

\* an engine that has committed a move through UpdateMove and one through
\* Move()
C21_Witness ==
  /\ pc = "idle" /\ ~returned.null
  /\ Len(history_.state_history_) >= 3
  /\ LastState(history_) = current_state_
  /\ half_move_number_ >= 2

\* the lowest depth_limit with which a frame of a DepthLimitedMinimax call
\* went on to generate its actions
DeepestFrame(run) == Min({run.calls[k].deepest : k \in DOMAIN run.calls})

\* C22: a frame reached with depth_limit <= 0 once the quiescence budget of
\* four has been used up returns UtilityHeuristic, whatever its action: no
\* frame that generates actions lies four plies or more below the nominal
\* depth limit.
C22_QuiescenceBudgetEndsSearch ==
  \A r \in ResultsOf("DepthLimitedMinimax") :
    DeepestFrame(r.value) > -kQuiescenceLimit

\* The history tables a frame is entered with in the check of the
\* exploration order: the empty one, and one that counts the last of the
\* actions once.
TablesOver(possible_actions) ==
  {EmptyHistoryTable}
    \cup {AddToHistoryTable(EmptyHistoryTable, possible_actions[i]) :
            i \in {Len(possible_actions)} \cap DOMAIN possible_actions}

\* descending history count, equal counts in ascending 32-bit encoding
InExplorationOrder(sorted, table) ==
  \A i, j \in DOMAIN sorted :
    i < j => \/ HistoryCount(table, sorted[i])
                  > HistoryCount(table, sorted[j])
             \/ /\ HistoryCount(table, sorted[i])
                     = HistoryCount(table, sorted[j])
                /\ ActionLess(sorted[i], sorted[j])

\* C23: MaxValue and MinValue explore the actions of a state in descending
\* order of their history-table count (0 for an action not in the table),
\* the actions of equal count in ascending order of their unsigned 32-bit
\* encoding: the order is a function of the state and the table alone.
C23_ExplorationOrder ==
  \A r \in ResultsOf("Actions") :
    \A table \in TablesOver(r.value) :
      InExplorationOrder(SortByHistory(r.value, table), table)

RECURSIVE RaySquares(_, _, _, _, _)

\* the squares of the ray that leaves `sq' by df files and dr ranks a step:
\* up to the edge of the board, stopping before the first square of `self'
\* and on the first square of `enemy'
RaySquares(sq, df, dr, self, enemy) ==
  LET file == (sq % 8) + df
      rank == (sq \div 8) + dr
      next == 8 * rank + file
  IN IF file \notin 0..7 \/ rank \notin 0..7 \/ next \in self THEN {}
     ELSE IF next \in enemy THEN {next}
     ELSE {next} \cup RaySquares(next, df, dr, self, enemy)

RookDirections == {<<0, 1>>, <<0, -1>>, <<1, 0>>, <<-1, 0>>}
BishopDirections == {<<1, 1>>, <<1, -1>>, <<-1, 1>>, <<-1, -1>>}

\* the squares of the rays from the one piece of `board' in `directions'
RaysFrom(board, directions, self, enemy) ==
  UNION {RaySquares(sq, d[1], d[2], self, enemy) : sq \in board, d \in directions}

\* C24: RookMoves, BishopMoves and QueenMoves of one piece return exactly the
\* squares of its four orthogonal, four diagonal and all eight rays: each ray
\* runs to the edge of the board, stops before the first friendly piece and
\* on the first enemy piece, never wraps between the H and the A file, and
\* the piece's own square is not part of the result.
C24_SliderRays ==
  /\ \A r \in ResultsOf("RookMoves") :
       r.value = RaysFrom(call.args[1], RookDirections, call.args[2], call.args[3])
  /\ \A r \in ResultsOf("BishopMoves") :
       r.value = RaysFrom(call.args[1], BishopDirections, call.args[2], call.args[3])
  /\ \A r \in ResultsOf("QueenMoves") :
       r.value = RaysFrom(call.args[1], RookDirections \cup BishopDirections,
                          call.args[2], call.args[3])

\* a queen on D4 with an enemy piece on H4 and a friendly piece on F6: H4 is
\* attacked, A5 beyond the edge and F6 are not, E5 before F6 is
C24_Witness ==
  /\ call.fn = "QueenMoves" /\ call.args[1] = {27}
  /\ 31 \in call.args[3] /\ 45 \in call.args[2]
  /\ \E r \in ResultsOf("QueenMoves") :
       {31, 36} \subseteq r.value /\ r.value \cap {27, 32, 45, 54} = {}

\* the king bitboard of `color' in `state'
KingOf(state, color) ==
  IF color = kWhite THEN state.whites_[kKing] ELSE state.blacks_[kKing]

\* C25: Result of a castle-flagged action, whichever colour castles, has the
\* king of the colour that moved on its square after castling (C1 or G1 for
\* white, C8 or G8 for black) and leaves the king bitboard of the other
\* colour as it was.
C25_CastleMovesOwnKing ==
  \A r \in ResultsOf("Result") :
    LET state == call.args[1]
        action == call.args[2]
        mover == state.color_at_play_
    IN (ActionToQueenSideCastle(action) \/ ActionToKingSideCastle(action))
         => /\ KingOf(r.value, mover)
                 = KingLocationAfterCastling(ActionToPieceAfter(action))
            /\ KingOf(r.value, OtherColor(mover))
                 = KingOf(state, OtherColor(mover))

\* the move of the piece on `before' to `after' as an action: a capture if an
\* enemy piece stands on `after', a promotion to a queen if a pawn reaches
\* the last rank
PseudoLegalMove(state, piece, before, after) ==
  Action(piece, state.color_at_play_, before, after, FALSE, FALSE, FALSE, FALSE,
         WasCapture(AllEnemy(state), after), FALSE,
         FindCapturePiece(Enemy(state), AllEnemy(state), after),
         piece = kPawn /\ after \subseteq (Rank(1) \cup Rank(8)), kQueen)

\* the moves of the move generators of king, knight, rook, bishop, queen and
\* pawn, castling and en passant left out: piece, from-square and to-square
PseudoLegalMoves(state) ==
  UNION {
    UNION {{<<move_generators[g].piece, {from}, {to}>> :
              to \in MoveGenerator(g, state, {from})} :
           from \in Friendly(state)[move_generators[g].piece]} :
    g \in 1..6}

\* C26: a pseudo-legal move other than castling and en passant after which
\* the mover's king is not attacked in Result(state, move) is among
\* Actions(state): the legality filter takes only the moving piece off its
\* from-square, not the other friendly pieces of its kind.
C26_SafeMovesAreActions ==
  \A r \in ResultsOf("Actions") :
    \A m \in PseudoLegalMoves(call.args[1]) :
      ~KingAttacked(Result(call.args[1],
                           PseudoLegalMove(call.args[1], m[1], m[2], m[3])),
                    call.args[1].color_at_play_)
        => \E action \in Range(r.value) :
             /\ ActionToPieceMoved(action) = m[1]
             /\ ActionToPieceBefore(action) = m[2]
             /\ ActionToPieceAfter(action) = m[3]

\* C27: on a state with legal actions, the action Minimax returns and Move()
\* commits is one of Actions of the state the search started from, whether
\* the iterations completed or were aborted by the clock: Move() returns it
\* and the new current state is its Result.
C27_MoveCommitsRootAction ==
  [][(pc = "returning" /\ pc' = "idle")
       => /\ last_move \in ActionSet(root)
          /\ returned' = [null |-> FALSE, action |-> last_move]
          /\ current_state_' = Result(root, last_move)]_vars

\* a Move() call has returned an action found by a completed iteration,
\* another than the one Minimax starts from, and has committed it
C27_Witness ==
  /\ pc = "idle" /\ ~returned.null /\ completed >= 1
  /\ returned.action \in ActionSet(root)
  /\ returned.action # MinimaxFirstMove(root)
  /\ current_state_ = Result(root, returned.action)

\* the largest and the smallest of a set of values
MaxIn(values) == CHOOSE x \in values : \A y \in values : y <= x
MinIn(values) == CHOOSE x \in values : \A y \in values : x <= y

RECURSIVE PlainMax(_, _, _, _, _)
RECURSIVE PlainMin(_, _, _, _, _)

\* Depth-limited minimax without pruning and without a history table: the
\* value of `state', reached by `action', for `color' when the side to
\* move maximises; terminal states, leaves and quiescence as in MaxValue.
PlainMax(limit, state, action, color, history) ==
  IF TerminalTest(state, history) # kNonterminal
  THEN UtilityFunction(state, color, history)
  ELSE IF limit <= 0 /\ ~IsNonQuiescenceState(action)
  THEN UtilityHeuristic(state, color)
  ELSE MaxIn({-Infinity} \cup
             {PlainMin(limit - 1, Result(state, a), a, color,
                       PerceptAddAction(PerceptAddState(history, Result(state, a)), a)) :
                a \in ActionSet(state)})

\* the same when the side to move minimises
PlainMin(limit, state, action, color, history) ==
  IF TerminalTest(state, history) # kNonterminal
  THEN UtilityFunction(state, color, history)
  ELSE IF limit <= 0 /\ ~IsNonQuiescenceState(action)
  THEN UtilityHeuristic(state, color)
  ELSE MinIn({Infinity} \cup
             {PlainMax(limit - 1, Result(state, a), a, color,
                       PerceptAddAction(PerceptAddState(history, Result(state, a)), a)) :
                a \in ActionSet(state)})

\* C28: with alpha = -infinity, beta = +infinity and no time-out, MinValue
\* returns for every action of the root the value of plain depth-limited
\* minimax without pruning over the same tree, with the same terminal
\* utilities and leaf heuristics, whatever history table and order of equal
\* counts the actions are explored in.
C28_AlphaBetaIsMinimax ==
  \A r \in ResultsOf("DepthLimitedMinimax") :
    \A k \in DOMAIN r.value.calls :
      /\ ~r.value.calls[k].null
      /\ r.value.calls[k].value
           = PlainMin(call.args[1] - 1,
                      Result(call.args[2], r.value.calls[k].action),
                      r.value.calls[k].action, call.args[2].color_at_play_,
                      call.args[4])

\* a search two plies deep has returned, and the values of the root's
\* actions differ
C28_Witness ==
  /\ call.fn = "DepthLimitedMinimax" /\ call.args[1] = 2
  /\ \E r \in ResultsOf("DepthLimitedMinimax") :
       \E j, k \in DOMAIN r.value.calls :
         /\ ~r.value.calls[j].null /\ ~r.value.calls[k].null
         /\ r.value.calls[j].value < r.value.calls[k].value

RECURSIVE GeneratedBelow(_, _, _, _)

\* the actions Actions returns in the frames of a search of `state', reached
\* by `action', when no frame is cut off
GeneratedBelow(limit, state, action, history) ==
  IF TerminalTest(state, history) # kNonterminal
       \/ (limit <= 0 /\ ~IsNonQuiescenceState(action))
  THEN {}
  ELSE ActionSet(state)
         \cup UNION {GeneratedBelow(
                       limit - 1, Result(state, a), a,
                       PerceptAddAction(PerceptAddState(history, Result(state, a)), a)) :
                     a \in ActionSet(state)}

\* C29: every key of the history table after a search is a key it had
\* before or an action that Actions returned for a state the search
\* visited; a node none of whose children improves on the initial infinity
\* adds no entry for an action that was never generated.
C29_TableKeysAreGeneratedActions ==
  \A r \in ResultsOf("DepthLimitedMinimax") :
    DOMAIN r.value.table
      \subseteq (DOMAIN call.args[3]
                   \cup UNION {GeneratedBelow(call.args[1] - 1,
                                              Result(call.args[2], a), a,
                                              call.args[4]) :
                               a \in ActionSet(call.args[2])})

\* the number of pieces on the board plus the number of pawns among them
Material(state) ==
  NumberOfBits(state.all_whites_ \cup state.all_blacks_)
    + NumberOfBits(state.whites_[kPawn] \cup state.blacks_[kPawn])

\* a DepthLimitedMinimax call that has been made and has not returned
SearchPending == call.fn = "DepthLimitedMinimax" /\ call.results = <<>>

\* The call has returned, without the clock having stopped it.  A frame
\* below depth_limit 0 is entered only through captures and promotions,
\* each of which takes a piece or a pawn off the board, and two kings
\* stay: the frames that generate actions lie less deep than the material
\* of the root.
SearchReturned ==
  /\ call.fn = "DepthLimitedMinimax" /\ call.results # <<>>
  /\ \A r \in ResultsOf("DepthLimitedMinimax") :
       /\ ~r.value.null
       /\ \A k \in DOMAIN r.value.calls : ~r.value.calls[k].null
       /\ DeepestFrame(r.value) > 2 - Material(call.args[2])

RECURSIVE MaterialFalls(_, _, _, _, _)

\* every frame of the search of `state', reached from `parent' by
\* `action', that goes on at depth_limit <= 0 was reached by an action that
\* took a piece or a pawn off the board
MaterialFalls(limit, parent, state, action, history) ==
  IF TerminalTest(state, history) # kNonterminal
       \/ (limit <= 0 /\ ~IsNonQuiescenceState(action))
  THEN TRUE
  ELSE /\ limit <= 0 => Material(state) < Material(parent)
       /\ \A a \in ActionSet(state) :
            MaterialFalls(
              limit - 1, state, Result(state, a), a,
              PerceptAddAction(PerceptAddState(history, Result(state, a)), a))

\* C30: every DepthLimitedMinimax call returns even if the clock never
\* reaches the time limit: at depth_limit <= 0 the recursion goes on only
\* through captures and promotions, each of which reduces the number of
\* pieces or of pawns, so the depth of a path is bounded by the material.
C30_SearchTerminates ==
  [][(SearchPending /\ call' # call)
       => /\ SearchReturned'
          /\ \A a \in ActionSet(call.args[2]) :
               MaterialFalls(call.args[1] - 1, call.args[2],
                             Result(call.args[2], a), a, call.args[4])]_vars

\* a search that went below depth_limit 0 through captures has returned
C30_Witness ==
  /\ SearchReturned
  /\ \E r \in ResultsOf("DepthLimitedMinimax") : DeepestFrame(r.value) < 0

====
